---- MODULE Spec2Model ----
(***************************************************************************)
(* PPTX slide translator: the job scheduler of backend/main.py, and the     *)
(* batched translation and the shape-tree pipeline of backend/translator.py.*)
(*                                                                         *)
(* Optional values are tuples: None is <<>> and a present value x is <<x>>.*)
(* A Python string that is inspected character by character (strip) is a   *)
(* sequence of one-character strings.                                      *)
(***************************************************************************)
EXTENDS Integers, Sequences, FiniteSets, TLC

\* ---------------------------------------------------------------- bounds
\* Number of uploads accepted in one run.
MaxJobs == 2
\* Number of LLM calls that report to one TiktokenCountCallback.
MaxRuns == 2
\* Largest value of the MAX_CONCURRENT_TRANSLATIONS environment setting tried.
MaxBound == 2
\* Longest free prefix of an input list of translate_texts_openai_async; the list
\* is the prefix followed by 0, batch_size - 1 or batch_size plain entries.
MaxHead == 2

\* ------------------------------------------------------- program constants
\* main.py:80  MAX_FILE_SIZE = 500 * 1024 * 1024
MAX_FILE_SIZE == 524288000
\* translator.py:67  batch_size = 10
batch_size == 10

None == <<>>
Some(x) == <<x>>

VARIABLES
    \* backend/main.py globals
    active_jobs,                  \* dict job_id -> TranslationJob
    translation_queue,            \* asyncio.Queue of TranslationRequest
    processing_count,             \* in-flight counter
    MAX_CONCURRENT_TRANSLATIONS,  \* read once from the environment
    \* the single process_translation_queue task
    worker_pc,                    \* "get" | "running" | "requeue_sleep" | "error_sleep" | "dead"
    worker_request,               \* the request the task is handling (None between jobs)
    \* metrics sink (backend/logger.py)
    metrics_log,                  \* records written by log_metrics, in order
    queue_status_log,             \* records written by log_queue_status, in order
    \* upload_file
    http_response,                \* status code of the last upload answered (0: none yet)
    jobs_created,                 \* number of uuid4() job ids handed out
    clock,                        \* datetime.now(), a logical clock
    \* history (not program state)
    status_history,               \* job_id -> sequence of the statuses the job has had
    pipeline_outcome,             \* job_id -> one record per call of translate_pptx_async:
                                  \*   call: "returned" | "raised"; handler: the except
                                  \*   block of the loop body ran
    increments,                   \* number of processing_count += 1 executed
    decrements,                   \* amount taken off processing_count by finally blocks
    escaped,                      \* number of exceptions caught by the loop-level handler
    admitted,                     \* history: job ids in the order in which they were marked processing
    requeued                      \* history: job ids put back to the tail for saturation

VARIABLES
    \* one call of translate_texts_openai_async (backend/translator.py)
    texts,                        \* the argument
    tr_pc,                        \* "idle" | "start" | "gather" | "done" | "raised"
    non_empty_texts,              \* [{"id", "text"}] of the non-blank entries
    text_indices,                 \* their original (0-based) indices
    tasks,                        \* the chunks handed to process_chunk, in task order
    responses,                    \* task number -> what the backend answered (None: pending)
    results,                      \* task number -> value returned by process_chunk
    final_results,                \* the list returned to the caller
    completion_order              \* history: task numbers in the order they finished

VARIABLES
    \* one run of analyze_pptx and translate_pptx_async on an uploaded deck
    prs,                          \* the presentation as loaded from the file
    pptx_pc,                      \* "idle" | "uploaded" | "analyzed" | "awaiting" | "saved"
    upload_analysis,              \* what analyze_pptx returned at upload (None before)
    texts_to_translate,           \* the texts collected by translate_pptx_async
    text_objects,                 \* references to the slots they came from
    translated_texts,             \* what translate_texts_openai_async returned
    saved,                        \* slots of the presentation written by prs.save (None before)
    pipeline_return,              \* value returned by translate_pptx_async (None before)
    backend_calls                 \* history: number of chain.ainvoke calls made

VARIABLES
    \* one OpenAIPricingCalculator.calculate_cost call (backend/token_counter.py)
    cost_pc,                      \* "idle" | "call" | "returned" | "repeated"
    cost_args,                    \* [model_name, input_tokens, output_tokens]
    normalized_model,             \* the local of line 162 (None before the call)
    cost_result,                  \* the dict returned (None before the call)
    cost_repeat                   \* the dict returned by a second call with the same arguments

VARIABLES
    \* one TiktokenCountCallback and the LLM runs that report to it
    tok_pc,                       \* "idle" | "__init__" | the method that ran last
    cb_model,                     \* self.model
    input_tokens,                 \* self.input_tokens
    output_tokens,                \* self.output_tokens
    current_run_outputs,          \* self._current_run_outputs
    llm_runs,                     \* run -> [pc, prompts, chunks, streaming, sent]: the LLM
                                  \*   calls that report to the callback; pc is "pending" |
                                  \*   "started" | "ended", sent counts the chunks streamed
    last_metrics,                 \* the dict get_metrics has just returned (None otherwise)
    \* history (not program state)
    was_reset                     \* reset_counters has been called

VARIABLES
    \* the answer of the GET handler that has just run (backend/main.py)
    query_response                \* None, or the dict (or 404) the handler returned

cost_vars == <<cost_pc, cost_args, normalized_model, cost_result, cost_repeat>>

tok_vars == <<tok_pc, cb_model, input_tokens, output_tokens, current_run_outputs,
              llm_runs, last_metrics, was_reset>>

query_vars == <<query_response>>

pptx_vars == <<prs, pptx_pc, upload_analysis, texts_to_translate, text_objects,
               translated_texts, saved, pipeline_return, backend_calls>>

tr_vars == <<texts, tr_pc, non_empty_texts, text_indices, tasks, responses, results,
             final_results, completion_order>>

sched_vars == <<active_jobs, translation_queue, processing_count,
                MAX_CONCURRENT_TRANSLATIONS, worker_pc, worker_request,
                metrics_log, queue_status_log, http_response, jobs_created, clock,
                status_history, pipeline_outcome, increments, decrements, escaped,
                admitted, requeued>>

\* ------------------------------------------------------------ upload inputs
\* file.size as Starlette reports it; 0 stands for a missing (None) or zero size.
SmallFile == 4096
FileSizes == {0, SmallFile, MAX_FILE_SIZE + 1}

\* file.filename, split at its extension.
FileNames == {[stem |-> "deck", ext |-> ".pptx"],
              [stem |-> "DECK", ext |-> ".PPTX"],
              [stem |-> "notes", ext |-> ".txt"]}

\* str.lower() on the extensions above.
Lower(ext) == CASE ext = ".PPTX" -> ".pptx"
                [] OTHER -> ext

\* main.py:246  file.filename.lower().endswith('.pptx')
IsPptxName(filename) == Lower(filename.ext) = ".pptx"

TargetLangs == {"ja", "en", "fr", "JA"}

\* main.py:252  target_lang not in ["ja", "en"]
SupportedLang(target_lang) == target_lang \in {"ja", "en"}

\* Uploaded documents: an unreadable file, an empty deck, and a deck of 3 slides
\* with 5 text units.
Docs == {[valid |-> FALSE, pages |-> 0, units |-> 0],
         [valid |-> TRUE, pages |-> 1, units |-> 0],
         [valid |-> TRUE, pages |-> 3, units |-> 5]}

\* translator.py:208-233  analyze_pptx
analyze_pptx(doc) ==
    IF doc.valid
    THEN [success |-> TRUE, pages |-> doc.pages, text_count |-> doc.units]
    ELSE [success |-> FALSE, pages |-> 0, text_count |-> 0]

\* translator.py:185-187, 203-205: both returns of translate_pptx_async are pairs
\* (len(prs.slides), applied_count).
translate_pptx_async(doc) == <<doc.pages, doc.units>>

\* main.py:131  pages, text_count, token_metrics = await translate_pptx_async(...)
\* Tuple unpacking into three targets succeeds only for a 3-tuple; otherwise it
\* raises ValueError inside the try block.
UnpackTargets == 3
UnpackOk(ret) == Len(ret) = UnpackTargets

\* ------------------------------------------------------------ job records
\* main.py:278-286
NewJob(job_id, filename, target_lang, analysis, now) ==
    [job_id |-> job_id, filename |-> filename, target_lang |-> target_lang,
     status |-> "queued", pages |-> analysis.pages, text_count |-> analysis.text_count,
     error_message |-> None, created_at |-> now, completed_at |-> None]

\* main.py:291-301
NewRequest(job_id, doc, filename, target_lang, file_size, analysis) ==
    [job_id |-> job_id, file_path |-> doc, filename |-> filename,
     target_lang |-> target_lang, file_size |-> file_size,
     pages |-> analysis.pages, text_count |-> analysis.text_count]

\* Mutant: the job is counted in and left queued.
MarkProcessing_Skipped(jobs, job_id) == jobs

\* main.py:124-125
MarkProcessing(jobs, job_id) ==
    IF job_id \in DOMAIN jobs
    THEN [jobs EXCEPT ![job_id].status = "processing"]
    ELSE jobs

\* main.py:140-142
MarkCompleted(jobs, job_id, now) ==
    IF job_id \in DOMAIN jobs
    THEN [jobs EXCEPT ![job_id].status = "completed",
                      ![job_id].completed_at = Some(now)]
    ELSE jobs

\* main.py:166  error_message = f"翻訳処理中にエラーが発生しました: {str(e)}"
ErrorMessage(e) == <<"translation failed: ", e>>

\* Mutant: the handler records the error but leaves the status as it was.
MarkFailed_KeepsStatus(jobs, job_id, error_message, now) ==
    IF job_id \in DOMAIN jobs
    THEN [jobs EXCEPT ![job_id].error_message = Some(error_message),
                      ![job_id].completed_at = Some(now)]
    ELSE jobs

\* Mutant: the handler puts the job back to queued for a retry.
MarkFailed_Requeued(jobs, job_id, error_message, now) ==
    IF job_id \in DOMAIN jobs
    THEN [jobs EXCEPT ![job_id].status = "queued",
                      ![job_id].error_message = Some(error_message)]
    ELSE jobs

\* main.py:169-172
MarkFailed(jobs, job_id, error_message, now) ==
    IF job_id \in DOMAIN jobs
    THEN [jobs EXCEPT ![job_id].status = "failed",
                      ![job_id].error_message = Some(error_message),
                      ![job_id].completed_at = Some(now)]
    ELSE jobs

\* main.py:145-159  (job is the id of the request, kept to tell the records apart)
CompletedRecord(req, ret) ==
    [job |-> req.job_id, filename |-> req.filename, pages |-> ret[1],
     text_count |-> ret[2], target_lang |-> req.target_lang, status |-> "completed",
     file_size |-> req.file_size, error_message |-> None,
     input_tokens |-> Some(ret[3].input_tokens), output_tokens |-> Some(ret[3].output_tokens),
     total_tokens |-> Some(ret[3].total_tokens), total_cost_usd |-> Some(ret[3].total_cost_usd)]

\* Mutant: the failure record carries no token and cost figures.
FailedRecord_NoTokens(req, error_message) ==
    [job |-> req.job_id, filename |-> req.filename, pages |-> req.pages,
     text_count |-> req.text_count, target_lang |-> req.target_lang, status |-> "failed",
     file_size |-> req.file_size, error_message |-> Some(error_message),
     input_tokens |-> None, output_tokens |-> None,
     total_tokens |-> None, total_cost_usd |-> None]

\* Mutant: the failure record is written under the status "error".
FailedRecord_StatusError(req, error_message) ==
    [job |-> req.job_id, filename |-> req.filename, pages |-> req.pages,
     text_count |-> req.text_count, target_lang |-> req.target_lang, status |-> "error",
     file_size |-> req.file_size, error_message |-> Some(error_message),
     input_tokens |-> Some(0), output_tokens |-> Some(0),
     total_tokens |-> Some(0), total_cost_usd |-> Some(0)]

\* main.py:175-189
FailedRecord(req, error_message) ==
    [job |-> req.job_id, filename |-> req.filename, pages |-> req.pages,
     text_count |-> req.text_count, target_lang |-> req.target_lang, status |-> "failed",
     file_size |-> req.file_size, error_message |-> Some(error_message),
     input_tokens |-> Some(0), output_tokens |-> Some(0),
     total_tokens |-> Some(0), total_cost_usd |-> Some(0)]

\* logger.py:95-104
QueueStatusRecord(queue_size, count) ==
    [queue_size |-> queue_size, processing_count |-> count]

\* Mutant: the loop holds one slot back.
Saturated_OneShort(count, bound) == count >= bound - 1

\* main.py:113  processing_count >= MAX_CONCURRENT_TRANSLATIONS
Saturated(count, bound) == count >= bound

\* Mutant: the finally block does not give the slot back.
Release_Forgotten(count) == count

\* Mutant: the finally block takes two slots off.
Release_Twice(count) == count - 2

\* main.py:201  processing_count -= 1
Release(count) == count - 1

\* Mutant: no loop-level handler, the exception ends the task.
LoopHandler_Dies == "dead"

\* main.py:206-208  the loop-level handler logs, sleeps and lets the loop go on
LoopHandler == "error_sleep"

\* Statuses appended to a job's history.
Extend(hist, job_id, statuses) ==
    IF job_id \in DOMAIN hist
    THEN [hist EXCEPT ![job_id] = @ \o statuses]
    ELSE hist

\* ---------------------------------------------------------------- Init
InitSched ==
    /\ active_jobs = <<>>
    /\ translation_queue = <<>>
    /\ processing_count = 0
    /\ MAX_CONCURRENT_TRANSLATIONS \in 0..MaxBound
    /\ worker_pc = "get"
    /\ worker_request = None
    /\ metrics_log = <<>>
    /\ queue_status_log = <<>>
    /\ http_response = 0
    /\ jobs_created = 0
    /\ clock = 0
    /\ status_history = <<>>
    /\ pipeline_outcome = <<>>
    /\ increments = 0
    /\ decrements = 0
    /\ escaped = 0
    /\ admitted = <<>>
    /\ requeued = {}

\* ------------------------------------------------------------ upload_file
\* main.py:229-335.  The function answers with a status code; only the path that
\* reaches line 288 changes the registry and the queue.
UploadResponse(file_size, filename, target_lang, io_ok, doc) ==
    IF file_size # 0 /\ file_size > MAX_FILE_SIZE THEN 413
    ELSE IF ~IsPptxName(filename) THEN 400
    ELSE IF ~SupportedLang(target_lang) THEN 400
    ELSE IF ~io_ok THEN 500
    ELSE IF ~analyze_pptx(doc).success THEN 400
    ELSE 200

\* Mutant: the request is put into the queue twice.
Put_Twice(queue, request) == queue \o <<request, request>>

\* Mutant: the request is put at the head of the queue.
Put_Front(queue, request) == <<request>> \o queue

\* main.py:115, 303  await translation_queue.put(translation_request)
Put(queue, request) == Append(queue, request)

\* Mutant: the job is registered and queued before the analysis is looked at.
Registered_BeforeAnalysis(file_size, filename, target_lang, io_ok, doc) ==
    /\ ~(file_size # 0 /\ file_size > MAX_FILE_SIZE)
    /\ IsPptxName(filename)
    /\ SupportedLang(target_lang)
    /\ io_ok

\* main.py:240-288  the call gets as far as line 288 (active_jobs[job_id] = job):
\* none of the three checks raised, the file was written, the analysis succeeded.
Registered(file_size, filename, target_lang, io_ok, doc) ==
    /\ ~(file_size # 0 /\ file_size > MAX_FILE_SIZE)
    /\ IsPptxName(filename)
    /\ SupportedLang(target_lang)
    /\ io_ok
    /\ analyze_pptx(doc).success

upload_file(file_size, filename, target_lang, io_ok, doc) ==
    LET code == UploadResponse(file_size, filename, target_lang, io_ok, doc)
        job_id == jobs_created + 1
        analysis == analyze_pptx(doc)
        content_len == IF file_size = 0 THEN SmallFile ELSE file_size
    IN /\ http_response' = code
       /\ IF Registered(file_size, filename, target_lang, io_ok, doc)
          THEN /\ jobs_created' = job_id
               /\ active_jobs' = (job_id :> NewJob(job_id, filename, target_lang, analysis, clock))
                                    @@ active_jobs
               /\ clock' = clock + 1
               /\ translation_queue' = Put(translation_queue,
                      NewRequest(job_id, doc, filename, target_lang, content_len, analysis))
               /\ status_history' = (job_id :> <<"queued">>) @@ status_history
               /\ pipeline_outcome' = (job_id :> <<>>) @@ pipeline_outcome
          ELSE UNCHANGED <<jobs_created, active_jobs, clock, translation_queue,
                           status_history, pipeline_outcome>>
       /\ UNCHANGED <<processing_count, MAX_CONCURRENT_TRANSLATIONS, worker_pc,
                      worker_request, metrics_log, queue_status_log,
                      increments, decrements, escaped, admitted, requeued>>

\* The uploads tried: every combination of the inputs above that has a defect
\* (too large, a name that is no .pptx name, a language other than ja and en, a
\* file that cannot be written or cannot be read as a deck), and two without
\* one (an empty deck for "ja" with a known size, and a deck under an upper-case
\* name for "en" whose size the framework does not report).
Accepted ==
    {[file_size |-> SmallFile, filename |-> [stem |-> "deck", ext |-> ".pptx"],
      target_lang |-> "ja", io_ok |-> TRUE,
      doc |-> [valid |-> TRUE, pages |-> 1, units |-> 0]],
     [file_size |-> 0, filename |-> [stem |-> "DECK", ext |-> ".PPTX"],
      target_lang |-> "en", io_ok |-> TRUE,
      doc |-> [valid |-> TRUE, pages |-> 3, units |-> 5]]}

Defective(x) ==
    \/ x.file_size > MAX_FILE_SIZE
    \/ x.filename.ext \notin {".pptx", ".PPTX"}
    \/ x.target_lang \notin {"ja", "en"}
    \/ ~x.io_ok
    \/ ~x.doc.valid

Submissions ==
    {x \in [file_size : FileSizes, filename : FileNames, target_lang : TargetLangs,
            io_ok : BOOLEAN, doc : Docs] :
        Defective(x) \/ x \in Accepted}

Upload ==
    /\ jobs_created < MaxJobs
    /\ \E x \in Submissions :
          upload_file(x.file_size, x.filename, x.target_lang, x.io_ok, x.doc)

\* ------------------------------------------------ process_translation_queue
\* Mutant: the request taken from the queue is dropped.
PutBack_Dropped(queue) == Tail(queue)

\* main.py:111, 115  get() takes the head, put() appends it again
PutBack(queue) == Put(Tail(queue), Head(queue))

\* main.py:111-117  the request taken from the head goes back to the tail
Requeue ==
    /\ worker_pc = "get"
    /\ translation_queue # <<>>
    /\ Saturated(processing_count, MAX_CONCURRENT_TRANSLATIONS)
    /\ translation_queue' = PutBack(translation_queue)
    /\ worker_pc' = "requeue_sleep"
    /\ requeued' = requeued \cup {Head(translation_queue).job_id}
    /\ UNCHANGED <<active_jobs, processing_count, MAX_CONCURRENT_TRANSLATIONS,
                   worker_request, metrics_log, queue_status_log, http_response,
                   jobs_created, clock, status_history, pipeline_outcome,
                   increments, decrements, escaped, admitted>>

\* main.py:111-135  take the head, count it in, mark it, start the pipeline
Admit ==
    /\ worker_pc = "get"
    /\ translation_queue # <<>>
    /\ ~Saturated(processing_count, MAX_CONCURRENT_TRANSLATIONS)
    /\ LET req == Head(translation_queue) IN
       /\ translation_queue' = Tail(translation_queue)
       /\ processing_count' = processing_count + 1
       /\ increments' = increments + 1
       /\ active_jobs' = MarkProcessing(active_jobs, req.job_id)
       /\ status_history' = IF active_jobs'[req.job_id].status # active_jobs[req.job_id].status
                            THEN Extend(status_history, req.job_id, <<"processing">>)
                            ELSE status_history
       /\ admitted' = Append(admitted, req.job_id)
       /\ worker_request' = Some(req)
       /\ worker_pc' = "running"
    /\ UNCHANGED <<MAX_CONCURRENT_TRANSLATIONS, metrics_log, queue_status_log,
                   http_response, jobs_created, clock, pipeline_outcome,
                   decrements, escaped, requeued>>

\* main.py:116, 208  asyncio.sleep(1) ends and the loop takes the next request
Wake ==
    /\ worker_pc \in {"requeue_sleep", "error_sleep"}
    /\ worker_pc' = "get"
    /\ UNCHANGED <<active_jobs, translation_queue, processing_count,
                   MAX_CONCURRENT_TRANSLATIONS, worker_request, metrics_log,
                   queue_status_log, http_response, jobs_created, clock,
                   status_history, pipeline_outcome, increments, decrements, escaped,
                   admitted, requeued>>

\* main.py:131-208  the pipeline call ends (returns or raises) and the rest of the
\* loop body runs without suspension: the unpacking, the success path or the
\* failure handler, the finally block and, for an exception that escapes the
\* handler, the loop-level handler.  sink_ok = FALSE: log_metrics raises.
Complete(raised, sink_ok) ==
    /\ worker_pc = "running"
    /\ LET req == worker_request[1]
           job_id == req.job_id
           ret == translate_pptx_async(req.file_path)
           success == ~raised /\ UnpackOk(ret)
           e == IF raised THEN "OSError" ELSE "ValueError: not enough values to unpack"
           msg == ErrorMessage(e)
           jobs1 == IF success THEN MarkCompleted(active_jobs, job_id, clock) ELSE active_jobs
           in_handler == ~success \/ ~sink_ok
           jobs2 == IF in_handler THEN MarkFailed(jobs1, job_id, msg, clock) ELSE jobs1
           handler_escapes == ~sink_ok
           count == Release(processing_count)
       IN /\ active_jobs' = jobs2
          /\ clock' = clock + 1
          /\ metrics_log' = IF ~sink_ok THEN metrics_log
                            ELSE IF success THEN Append(metrics_log, CompletedRecord(req, ret))
                            ELSE Append(metrics_log, FailedRecord(req, msg))
          /\ status_history' = Extend(status_history, job_id,
                                  (IF jobs1[job_id].status # active_jobs[job_id].status
                                   THEN <<jobs1[job_id].status>> ELSE <<>>)
                                  \o (IF jobs2[job_id].status # jobs1[job_id].status
                                      THEN <<jobs2[job_id].status>> ELSE <<>>))
          /\ pipeline_outcome' = [pipeline_outcome EXCEPT ![job_id] =
                                    Append(@, [call |-> IF raised THEN "raised" ELSE "returned",
                                               handler |-> in_handler])]
          /\ processing_count' = count
          /\ decrements' = decrements + (processing_count - count)
          /\ queue_status_log' = Append(queue_status_log,
                                        QueueStatusRecord(Len(translation_queue), count))
          /\ escaped' = IF handler_escapes THEN escaped + 1 ELSE escaped
          /\ worker_pc' = IF handler_escapes THEN LoopHandler ELSE "get"
          /\ worker_request' = None
    /\ UNCHANGED <<translation_queue, MAX_CONCURRENT_TRANSLATIONS, http_response,
                   jobs_created, increments, admitted, requeued>>

PipelineReturns == Complete(FALSE, TRUE)

PipelineRaises == Complete(TRUE, TRUE)

\* The metrics sink raises inside the handler of a job that is ending.
SinkRaises == \E raised \in BOOLEAN : Complete(raised, FALSE)

\* =========================================================================
\* translate_texts_openai_async (backend/translator.py)
\* =========================================================================

\* ------------------------------------------------------------------ strings
\* str.strip(): leading and trailing whitespace removed.
IsSpace(c) == c = " "

RECURSIVE LStrip(_)
LStrip(s) == IF s = <<>> THEN s
             ELSE IF IsSpace(Head(s)) THEN LStrip(Tail(s)) ELSE s

RECURSIVE RStrip(_)
RStrip(s) == IF s = <<>> THEN s
             ELSE IF IsSpace(s[Len(s)]) THEN RStrip(SubSeq(s, 1, Len(s) - 1)) ELSE s

Strip(s) == RStrip(LStrip(s))

\* A JSON value that is not text (null, a number, a list): it has no strip().
NonText == <<"<null>">>
IsText(v) == v # NonText

\* translator.py:49  f"text_{i}" with i the 0-based index
TextId(i) == <<"text_", i>>

\* ------------------------------------------------------------------- inputs
\* Entries of the free prefix: empty, whitespace-only, plain, padded.
Strs == {<<>>, <<" ">>, <<"a">>, <<" ", "a", " ">>}

Heads == UNION {[1..n -> Strs] : n \in 0..MaxHead}

\* The plain entries that follow the prefix, all different.
Filler(k) == [j \in 1..k |-> <<"w", ToString(j)>>]

Inputs == {h \o Filler(k) : h \in Heads, k \in {0, batch_size - 1, batch_size}}

\* ------------------------------------------------------- backend responses
\* What chain.ainvoke gives for one chunk: it raises (transport error, output
\* that is not JSON), or it returns the parsed JSON value.  An entry of the
\* translations list is a mapping that may lack "id" or "translated".
Entry(id, translated) == ("id" :> id) @@ ("translated" :> translated)

\* The entries answering one chunk item under a variant.
Answer(item, variant) ==
    CASE variant = "ok"      -> <<Entry(item.id, <<"T">> \o item.text)>>
      [] variant = "padded"  -> <<Entry(item.id, <<" ", "T">> \o item.text \o <<" ">>)>>
      [] variant = "blank"   -> <<Entry(item.id, <<" ">>)>>
      [] variant = "empty"   -> <<Entry(item.id, <<>>)>>
      [] variant = "nontext" -> <<Entry(item.id, NonText)>>
      [] variant = "nofield" -> <<("id" :> item.id)>>
      [] variant = "noid"    -> <<("translated" :> <<"T">> \o item.text)>>
      [] variant = "missing" -> <<>>

Variants == {"ok", "padded", "blank", "empty", "nontext", "nofield", "noid", "missing"}

RECURSIVE Flatten(_)
Flatten(ss) == IF ss = <<>> THEN <<>> ELSE Head(ss) \o Flatten(Tail(ss))

Reverse(s) == [k \in 1..Len(s) |-> s[Len(s) + 1 - k]]

\* Lists in which every item has variant base, except item d (0: none) which has
\* variant dv.
ListWith(chunk, base, d, dv) ==
    Flatten([k \in 1..Len(chunk) |-> Answer(chunk[k], IF k = d THEN dv ELSE base)])

\* Translations lists tried for a chunk: uniform answers in which at most one
\* item (the first or the last) deviates, the well-formed one also in reverse
\* order, a list with an entry for an id that was not asked, and lists with a
\* second entry for the id of the first or last item, put before or after the
\* others.
TranslationLists(chunk) ==
    LET n == Len(chunk)
        places == {0, 1, n}
        plain(base) == {ListWith(chunk, base, d, dv) : d \in places, dv \in Variants}
        good == ListWith(chunk, "ok", 0, "ok")
        foreign == Entry(TextId(-1), <<"x">>)
        dups == {Entry(chunk[d].id, v) : d \in {1, n}, v \in {<<" ">>, <<"dup">>, NonText}}
    IN plain("ok") \cup plain("missing")
       \cup {Reverse(good)}
       \cup {Append(good, foreign), <<foreign>> \o good}
       \cup {Append(good, e) : e \in dups}
       \cup {<<e>> \o good : e \in dups}

Responses(chunk) ==
    {[kind |-> k, translations |-> <<>>] :
        k \in {"raise", "not_dict", "no_key", "not_iterable"}}
    \cup {[kind |-> "list", translations |-> l] : l \in TranslationLists(chunk)}

\* The answers tried on the tasks that finish after the first one.
BasicResponses(chunk) ==
    {[kind |-> k, translations |-> <<>>] : k \in {"raise", "not_dict", "list"}}
    \cup {[kind |-> "list", translations |-> l] :
             l \in {ListWith(chunk, "ok", 0, "ok"),
                    Reverse(ListWith(chunk, "ok", 0, "ok")),
                    ListWith(chunk, "ok", 1, "nofield")}}

\* ------------------------------------------------------------ process_chunk
\* Mutant: on an error the chunk gives back no texts at all.
Fallback_Drops(chunk) == <<>>

\* translator.py:97, 113  [item["text"] for item in chunk]
Fallback(chunk) == [k \in 1..Len(chunk) |-> chunk[k].text]

\* translator.py:100  {item["id"]: item["translated"] for item in translations}
\* (a later entry for an id replaces an earlier one)
HasId(translations, id) == \E k \in 1..Len(translations) : translations[k]["id"] = id

LastFor(translations, id) ==
    LET k == CHOOSE k \in 1..Len(translations) :
                 /\ translations[k]["id"] = id
                 /\ \A m \in (k + 1)..Len(translations) : translations[m]["id"] # id
    IN translations[k]["translated"]

\* Mutant: an id that is missing from the response is looked up without a default.
Lookup_NoDefault(translations, item) ==
    IF HasId(translations, item.id) THEN LastFor(translations, item.id) ELSE NonText

\* translator.py:105  id_to_trans.get(item["id"], item["text"])
Lookup(translations, item) ==
    IF HasId(translations, item.id) THEN LastFor(translations, item.id) ELSE item.text

\* Mutant: a blank translation is passed on as it came.
Resolve_KeepsBlank(translated, item) == translated

\* translator.py:106-108  a blank translation gives way to the item's text
Resolve(translated, item) ==
    IF Strip(translated) = <<>> THEN item.text ELSE translated

\* translator.py:93-110.  The exception the try block raises for a response
\* ("none": it runs to its end): the call itself raises, the translations value
\* cannot be iterated, an entry lacks "id" or "translated", or the value looked
\* up for an item of the chunk has no strip().
TryBlockError(chunk, response) ==
    CASE response.kind = "raise" -> "APIError"
      [] response.kind = "not_iterable" -> "TypeError"
      [] response.kind = "list"
         /\ \E k \in 1..Len(response.translations) :
                {"id", "translated"} \ DOMAIN response.translations[k] # {} -> "KeyError"
      [] response.kind = "list"
         /\ \A k \in 1..Len(response.translations) :
                {"id", "translated"} \subseteq DOMAIN response.translations[k]
         /\ \E m \in 1..Len(chunk) : ~IsText(Lookup(response.translations, chunk[m]))
             -> "AttributeError"
      [] OTHER -> "none"

ChunkRaises(chunk, response) == TryBlockError(chunk, response) # "none"

\* Mutant: the handler is written for a missing field only.
Caught_KeyErrorOnly(e) == e = "KeyError"

\* translator.py:111  except Exception: every exception the try block can raise
\* for a backend outcome is an Exception.
Caught(e) == e \in {"APIError", "TypeError", "KeyError", "AttributeError"}

\* An exception leaves process_chunk (and, through gather, the whole call).
Escapes(chunk, response) ==
    ChunkRaises(chunk, response) /\ ~Caught(TryBlockError(chunk, response))

\* Mutant: an item whose id is missing from the response gets no result.
process_chunk_AnsweredOnly(chunk, response) ==
    IF ChunkRaises(chunk, response) THEN Fallback(chunk)
    ELSE IF response.kind \in {"not_dict", "no_key"} THEN Fallback(chunk)
    ELSE LET answered == SelectSeq(chunk, LAMBDA item : HasId(response.translations, item.id))
         IN [k \in 1..Len(answered) |->
                Resolve(Lookup(response.translations, answered[k]), answered[k])]

\* translator.py:93-113  the value process_chunk returns
process_chunk(chunk, response) ==
    IF ChunkRaises(chunk, response) THEN Fallback(chunk)
    ELSE IF response.kind \in {"not_dict", "no_key"} THEN Fallback(chunk)
    ELSE [k \in 1..Len(chunk) |->
             Resolve(Lookup(response.translations, chunk[k]), chunk[k])]

\* ------------------------------------------------ translate_texts_openai_async
\* translator.py:44-52
RECURSIVE NonEmptyFrom(_, _)
NonEmptyFrom(ts, i) ==
    IF i > Len(ts) THEN <<>>
    ELSE (IF Strip(ts[i]) # <<>>
          THEN <<[id |-> TextId(i - 1), text |-> Strip(ts[i])]>>
          ELSE <<>>) \o NonEmptyFrom(ts, i + 1)

RECURSIVE IndicesFrom(_, _)
IndicesFrom(ts, i) ==
    IF i > Len(ts) THEN <<>>
    ELSE (IF Strip(ts[i]) # <<>> THEN <<i - 1>> ELSE <<>>) \o IndicesFrom(ts, i + 1)

Min(a, b) == IF a < b THEN a ELSE b

\* The largest element of a non-empty set of numbers.
Last(K) == CHOOSE k \in K : \A m \in K : m <= k

\* Mutant: only full slices are made, the remainder is left out.
Chunks_FullOnly(items) ==
    [b \in 1..(Len(items) \div batch_size) |->
        SubSeq(items, (b - 1) * batch_size + 1, b * batch_size)]

\* translator.py:116-119  non_empty_texts[i:i + batch_size] for i in range(0, n, batch_size)
Chunks(items) ==
    LET n == Len(items)
        count == (n + batch_size - 1) \div batch_size
    IN [b \in 1..count |->
           SubSeq(items, (b - 1) * batch_size + 1, Min(b * batch_size, n))]

\* Mutant: the results are collected in the order in which the tasks finished.
GatherOrder_AsFinished(n, finished) == finished

\* translator.py:120  asyncio.gather returns the results in the order of the
\* tasks, whatever the order in which they finished.
GatherOrder(n, finished) == [b \in 1..n |-> b]

\* translator.py:127-132
Reassemble(ts, indices, all_translations) ==
    [p \in 1..Len(ts) |->
        IF \E i \in 1..Len(indices) : indices[i] = p - 1
        THEN LET i == CHOOSE i \in 1..Len(indices) : indices[i] = p - 1
             IN IF i <= Len(all_translations) THEN all_translations[i] ELSE ts[p]
        ELSE <<>>]

\* The whole call as a function of the argument and of the answer to each task.
translate_texts_openai_async(ts, answers) ==
    LET items == NonEmptyFrom(ts, 1)
        chunks == Chunks(items)
    IN IF ts = <<>> THEN <<>>
       ELSE IF items = <<>> THEN [p \in 1..Len(ts) |-> <<>>]
       ELSE Reassemble(ts, IndicesFrom(ts, 1),
                Flatten([b \in 1..Len(chunks) |-> process_chunk(chunks[b], answers[b])]))

\* No cost is being calculated.
CostIdle ==
    /\ cost_pc = "idle"
    /\ cost_args = None
    /\ normalized_model = None
    /\ cost_result = None
    /\ cost_repeat = None

\* No callback has been constructed.
TokensIdle ==
    /\ tok_pc = "idle"
    /\ cb_model = <<>>
    /\ input_tokens = 0
    /\ output_tokens = 0
    /\ current_run_outputs = <<>>
    /\ llm_runs = <<>>
    /\ last_metrics = None
    /\ was_reset = FALSE

\* No GET request has been answered.
QueryIdle == query_response = None

\* No deck is being handled.
PptxIdle ==
    /\ prs = <<>>
    /\ pptx_pc = "idle"
    /\ upload_analysis = None
    /\ texts_to_translate = <<>>
    /\ text_objects = <<>>
    /\ translated_texts = <<>>
    /\ saved = None
    /\ pipeline_return = None
    /\ backend_calls = 0

TranslateIdle ==
    /\ texts = <<>>
    /\ tr_pc = "idle"
    /\ non_empty_texts = <<>>
    /\ text_indices = <<>>
    /\ tasks = <<>>
    /\ responses = <<>>
    /\ results = <<>>
    /\ final_results = <<>>
    /\ completion_order = <<>>

SchedIdle ==
    /\ active_jobs = <<>>
    /\ translation_queue = <<>>
    /\ processing_count = 0
    /\ MAX_CONCURRENT_TRANSLATIONS = 1
    /\ worker_pc = "get"
    /\ worker_request = None
    /\ metrics_log = <<>>
    /\ queue_status_log = <<>>
    /\ http_response = 0
    /\ jobs_created = 0
    /\ clock = 0
    /\ status_history = <<>>
    /\ pipeline_outcome = <<>>
    /\ increments = 0
    /\ decrements = 0
    /\ escaped = 0
    /\ admitted = <<>>
    /\ requeued = {}

InitTranslate ==
    /\ texts \in Inputs
    /\ tr_pc = "start"
    /\ non_empty_texts = <<>>
    /\ text_indices = <<>>
    /\ tasks = <<>>
    /\ responses = <<>>
    /\ results = <<>>
    /\ final_results = <<>>
    /\ completion_order = <<>>
    /\ SchedIdle
    /\ PptxIdle
    /\ CostIdle
    /\ TokensIdle
    /\ QueryIdle

\* translator.py:40-55, 116-119  filter, and create one task per chunk
StartTranslate ==
    /\ tr_pc = "start"
    /\ LET items == NonEmptyFrom(texts, 1) IN
       IF texts = <<>>
       THEN /\ final_results' = <<>>
            /\ tr_pc' = "done"
            /\ UNCHANGED <<non_empty_texts, text_indices, tasks, responses, results>>
       ELSE /\ non_empty_texts' = items
            /\ text_indices' = IndicesFrom(texts, 1)
            /\ IF items = <<>>
               THEN /\ final_results' = [p \in 1..Len(texts) |-> <<>>]
                    /\ tr_pc' = "done"
                    /\ UNCHANGED <<tasks, responses, results>>
               ELSE /\ tasks' = Chunks(items)
                    /\ responses' = [b \in 1..Len(Chunks(items)) |-> None]
                    /\ results' = [b \in 1..Len(Chunks(items)) |-> None]
                    /\ tr_pc' = "gather"
                    /\ UNCHANGED final_results
    /\ UNCHANGED <<texts, completion_order>>
    /\ UNCHANGED <<sched_vars, pptx_vars, cost_vars, tok_vars, query_vars>>

\* translator.py:93-113  the backend answers task b and process_chunk returns.
\* The first task to finish is tried with every answer of Responses, the later
\* ones with those of BasicResponses.
BackendResponds(b) ==
    /\ tr_pc = "gather"
    /\ responses[b] = None
    /\ \E response \in (IF completion_order = <<>> THEN Responses(tasks[b])
                         ELSE BasicResponses(tasks[b])) :
          /\ responses' = [responses EXCEPT ![b] = Some(response)]
          /\ IF Escapes(tasks[b], response)
             THEN \* gather hands the first exception of a task to the caller
                  /\ tr_pc' = "raised"
                  /\ UNCHANGED results
             ELSE /\ results' = [results EXCEPT ![b] = Some(process_chunk(tasks[b], response))]
                  /\ UNCHANGED tr_pc
    /\ completion_order' = Append(completion_order, b)
    /\ UNCHANGED <<texts, non_empty_texts, text_indices, tasks, final_results>>
    /\ UNCHANGED <<sched_vars, pptx_vars, cost_vars, tok_vars, query_vars>>

\* translator.py:120-134  gather returns the results in task order
Gather ==
    /\ tr_pc = "gather"
    /\ \A b \in 1..Len(tasks) : results[b] # None
    /\ final_results' = Reassemble(texts, text_indices,
                            Flatten([k \in 1..Len(tasks) |->
                                results[GatherOrder(Len(tasks), completion_order)[k]][1]]))
    /\ tr_pc' = "done"
    /\ UNCHANGED <<texts, non_empty_texts, text_indices, tasks, responses, results,
                   completion_order>>
    /\ UNCHANGED <<sched_vars, pptx_vars, cost_vars, tok_vars, query_vars>>

NextTranslate ==
    \/ StartTranslate
    \/ \E b \in 1..Len(tasks) : BackendResponds(b)
    \/ Gather

\* =========================================================================
\* collect_texts_from_shape, analyze_pptx and translate_pptx_async on a shape
\* tree (backend/translator.py:137-233)
\* =========================================================================

\* --------------------------------------------------------------- the shapes
\* A shape with a text frame: paragraphs of runs.
TextShape(paragraphs) == [kind |-> "text", paragraphs |-> paragraphs]
\* A table: rows of cells.
TableShape(rows) == [kind |-> "table", rows |-> rows]
\* A group of shapes.
GroupShape(shapes) == [kind |-> "group", shapes |-> shapes]
\* A picture, a connector: no text frame.
OtherShape == [kind |-> "other"]

\* The shapes tried: runs and cells that are empty, whitespace-only, plain and
\* padded; a group within a group; a table of more than batch_size cells.
ShapeSamples ==
    {OtherShape,
     TextShape(<< << <<" ", "a", " ">>, <<>> >>, << <<" ">>, <<"b">> >> >>),
     TextShape(<< << <<" ">> >>, <<>> >>),
     TableShape(<< << <<"c">>, <<>> >>, << <<" ">>, <<"d", " ">> >> >>),
     GroupShape(<< TextShape(<< << <<"e">> >> >>),
                   GroupShape(<< TableShape(<< << <<"f">> >> >>), OtherShape >>) >>),
     TableShape(<< [k \in 1..(batch_size + 1) |-> <<"g", ToString(k)>>] >>)}

\* Most shapes on a slide.
MaxShapes == 2

Slides == UNION {[1..n -> ShapeSamples] : n \in 0..MaxShapes}

\* A second slide put after the first one.
LastSlide == << TextShape(<< << <<"z">>, <<" ">> >> >>) >>

\* The decks tried: no slide, one slide, two slides.
Presentations == {<<>>} \cup {<<slide>> : slide \in Slides}
                        \cup {<<slide, LastSlide>> : slide \in Slides}

\* ------------------------------------------------- collect_texts_from_shape
\* A slot is a run of a text frame or a cell of a table; ref is its place in the
\* tree.  Every slot of a shape, in the order of the traversal.
RECURSIVE SlotsOfShape(_, _)
SlotsOfShape(shape, ref) ==
    CASE shape.kind = "group" ->
            Flatten([k \in 1..Len(shape.shapes) |->
                        SlotsOfShape(shape.shapes[k], Append(ref, k))])
      [] shape.kind = "table" ->
            Flatten([r \in 1..Len(shape.rows) |->
                        [c \in 1..Len(shape.rows[r]) |->
                            [ref |-> ref \o <<r, c>>, text |-> shape.rows[r][c]]]])
      [] shape.kind = "text" ->
            Flatten([q \in 1..Len(shape.paragraphs) |->
                        [r \in 1..Len(shape.paragraphs[q]) |->
                            [ref |-> ref \o <<q, r>>, text |-> shape.paragraphs[q][r]]]])
      [] OTHER -> <<>>

\* translator.py:153, 165  if cell.text.strip() / if run.text.strip()
RECURSIVE KeepNonBlank(_)
KeepNonBlank(slots) ==
    IF slots = <<>> THEN <<>>
    ELSE (IF Strip(Head(slots).text) # <<>> THEN <<Head(slots)>> ELSE <<>>)
         \o KeepNonBlank(Tail(slots))

\* Mutant: the children of a group are visited from the last to the first.
VisitOrder_Backwards(n) == [k \in 1..n |-> n + 1 - k]

\* translator.py:144  for child_shape in shape.shapes: the indices visited
VisitOrder(n) == [k \in 1..n |-> k]

\* translator.py:137-167  the (text, object) pairs appended for one shape
RECURSIVE collect_texts_from_shape(_, _)
collect_texts_from_shape(shape, ref) ==
    CASE shape.kind = "group" ->
            LET order == VisitOrder(Len(shape.shapes))
            IN Flatten([k \in 1..Len(order) |->
                           collect_texts_from_shape(shape.shapes[order[k]],
                                                    Append(ref, order[k]))])
      [] shape.kind = "table" -> KeepNonBlank(SlotsOfShape(shape, ref))
      [] shape.kind = "text" -> KeepNonBlank(SlotsOfShape(shape, ref))
      [] OTHER -> <<>>

\* translator.py:180-183, 218-220  for slide in prs.slides: for shape in slide.shapes
CollectAll(deck) ==
    Flatten([sl \in 1..Len(deck) |->
        Flatten([sh \in 1..Len(deck[sl]) |->
            collect_texts_from_shape(deck[sl][sh], <<sl, sh>>)])])

\* Every slot of the deck, as prs.save writes it.
SlotsOf(deck) ==
    Flatten([sl \in 1..Len(deck) |->
        Flatten([sh \in 1..Len(deck[sl]) |-> SlotsOfShape(deck[sl][sh], <<sl, sh>>)])])

\* Mutant: the analysis counts every run and cell, blank ones included.
UnitCount_AllSlots(deck) == Len(SlotsOf(deck))

\* translator.py:224  len(texts_to_translate) of the analysis pass
UnitCount(deck) == Len(CollectAll(deck))

\* translator.py:212-226  analyze_pptx on a file that loads
AnalyzeDeck(deck) ==
    [success |-> TRUE, pages |-> Len(deck), text_count |-> UnitCount(deck)]

\* Mutant: the translations are paired with the objects from the far end.
Zip_Reversed(objects, translated) ==
    [k \in 1..Min(Len(objects), Len(translated)) |->
        <<objects[k], translated[Len(translated) + 1 - k]>>]

\* translator.py:193  zip(text_objects, translated_texts)
Zip(objects, translated) ==
    [k \in 1..Min(Len(objects), Len(translated)) |-> <<objects[k], translated[k]>>]

\* translator.py:194-197  the pairs whose text is assigned and counted
Applied(pairs) == {k \in 1..Len(pairs) : Strip(pairs[k][2]) # <<>>}

\* translator.py:193-199  the slots after the assignments, one after the other
ApplyTranslations(slots, pairs) ==
    [i \in 1..Len(slots) |->
        LET K == {k \in Applied(pairs) : pairs[k][1] = slots[i].ref}
        IN IF K = {} THEN slots[i]
           ELSE [ref |-> slots[i].ref, text |-> pairs[Last(K)][2]]]

\* The answer of the backend to a chunk, by kind.
DeckAnswerKinds == {"ok", "reversed", "raise", "first_blank", "last_missing", "nofield"}

DeckAnswer(chunk, kind) ==
    CASE kind = "ok" -> [kind |-> "list", translations |-> ListWith(chunk, "ok", 0, "ok")]
      [] kind = "reversed" ->
            [kind |-> "list", translations |-> Reverse(ListWith(chunk, "ok", 0, "ok"))]
      [] kind = "raise" -> [kind |-> "raise", translations |-> <<>>]
      [] kind = "first_blank" ->
            [kind |-> "list", translations |-> ListWith(chunk, "ok", 1, "blank")]
      [] kind = "last_missing" ->
            [kind |-> "list", translations |-> ListWith(chunk, "ok", Len(chunk), "missing")]
      [] kind = "nofield" ->
            [kind |-> "list", translations |-> ListWith(chunk, "ok", 1, "nofield")]

\* A deck has been uploaded and written to the temporary file.
InitPptx ==
    /\ prs \in Presentations
    /\ pptx_pc = "uploaded"
    /\ upload_analysis = None
    /\ texts_to_translate = <<>>
    /\ text_objects = <<>>
    /\ translated_texts = <<>>
    /\ saved = None
    /\ pipeline_return = None
    /\ backend_calls = 0
    /\ SchedIdle
    /\ TranslateIdle
    /\ CostIdle
    /\ TokensIdle
    /\ QueryIdle

\* main.py:271  analysis = analyze_pptx(input_path)
Analyze ==
    /\ pptx_pc = "uploaded"
    /\ upload_analysis' = Some(AnalyzeDeck(prs))
    /\ pptx_pc' = "analyzed"
    /\ UNCHANGED <<prs, texts_to_translate, text_objects, translated_texts, saved,
                   pipeline_return, backend_calls>>
    /\ UNCHANGED <<sched_vars, tr_vars, cost_vars, tok_vars, query_vars>>

\* translator.py:174-190  load, collect, and either save and return at once or
\* call translate_texts_openai_async and wait
Collect ==
    /\ pptx_pc = "analyzed"
    /\ LET collected == CollectAll(prs) IN
       /\ texts_to_translate' = [k \in 1..Len(collected) |-> collected[k].text]
       /\ text_objects' = [k \in 1..Len(collected) |-> collected[k].ref]
       /\ IF collected = <<>>
          THEN /\ saved' = Some(SlotsOf(prs))
               /\ pipeline_return' = Some(<<Len(prs), 0>>)
               /\ pptx_pc' = "saved"
               /\ UNCHANGED backend_calls
          ELSE /\ pptx_pc' = "awaiting"
               /\ backend_calls' = Len(Chunks(NonEmptyFrom(texts_to_translate', 1)))
               /\ UNCHANGED <<saved, pipeline_return>>
    /\ UNCHANGED <<prs, upload_analysis, translated_texts>>
    /\ UNCHANGED <<sched_vars, tr_vars, cost_vars, tok_vars, query_vars>>

\* translator.py:190-205  the translations arrive, are assigned to the objects,
\* and the deck is saved
Apply ==
    /\ pptx_pc = "awaiting"
    /\ \E kind \in DeckAnswerKinds :
          LET chunks == Chunks(NonEmptyFrom(texts_to_translate, 1))
              translated == translate_texts_openai_async(texts_to_translate,
                                [b \in 1..Len(chunks) |-> DeckAnswer(chunks[b], kind)])
              pairs == Zip(text_objects, translated)
          IN /\ translated_texts' = translated
             /\ saved' = Some(ApplyTranslations(SlotsOf(prs), pairs))
             /\ pipeline_return' = Some(<<Len(prs), Cardinality(Applied(pairs))>>)
    /\ pptx_pc' = "saved"
    /\ UNCHANGED <<prs, upload_analysis, texts_to_translate, text_objects, backend_calls>>
    /\ UNCHANGED <<sched_vars, tr_vars, cost_vars, tok_vars, query_vars>>

NextPptx == Analyze \/ Collect \/ Apply

\* =========================================================================
\* OpenAIPricingCalculator (backend/token_counter.py)
\* =========================================================================
\* A model name is a sequence of characters.  A price is in units of 0.00001 USD
\* per 1K tokens, so that tokens * price is an amount in units of 0.00000001 USD;
\* a cost is reported in units of 0.000001 USD (6 decimal places).

\* token_counter.py:16-146  PRICING
PRICING ==
    (<<"g", "p", "t", "-", "5">> :> [input |-> 125, output |-> 1000])
    @@ (<<"g", "p", "t", "-", "5", "-", "m", "i", "n", "i">> :> [input |-> 25, output |-> 200])
    @@ (<<"g", "p", "t", "-", "5", "-", "n", "a", "n", "o">> :> [input |-> 5, output |-> 40])
    @@ (<<"g", "p", "t", "-", "5", "-", "c", "h", "a", "t", "-", "l", "a", "t", "e", "s", "t">> :> [input |-> 125, output |-> 1000])
    @@ (<<"g", "p", "t", "-", "5", "-", "c", "o", "d", "e", "x">> :> [input |-> 125, output |-> 1000])
    @@ (<<"g", "p", "t", "-", "5", "-", "p", "r", "o">> :> [input |-> 1500, output |-> 12000])
    @@ (<<"g", "p", "t", "-", "4", ".", "1">> :> [input |-> 200, output |-> 800])
    @@ (<<"g", "p", "t", "-", "4", ".", "1", "-", "m", "i", "n", "i">> :> [input |-> 40, output |-> 160])
    @@ (<<"g", "p", "t", "-", "4", ".", "1", "-", "n", "a", "n", "o">> :> [input |-> 10, output |-> 40])
    @@ (<<"o", "1">> :> [input |-> 1500, output |-> 6000])
    @@ (<<"o", "1", "-", "p", "r", "o">> :> [input |-> 15000, output |-> 60000])
    @@ (<<"o", "3">> :> [input |-> 200, output |-> 800])
    @@ (<<"o", "3", "-", "p", "r", "o">> :> [input |-> 2000, output |-> 8000])
    @@ (<<"o", "3", "-", "d", "e", "e", "p", "-", "r", "e", "s", "e", "a", "r", "c", "h">> :> [input |-> 1000, output |-> 4000])
    @@ (<<"o", "4", "-", "m", "i", "n", "i">> :> [input |-> 110, output |-> 440])
    @@ (<<"o", "4", "-", "m", "i", "n", "i", "-", "d", "e", "e", "p", "-", "r", "e", "s", "e", "a", "r", "c", "h">> :> [input |-> 200, output |-> 800])
    @@ (<<"o", "3", "-", "m", "i", "n", "i">> :> [input |-> 110, output |-> 440])
    @@ (<<"o", "1", "-", "m", "i", "n", "i">> :> [input |-> 110, output |-> 440])
    @@ (<<"g", "p", "t", "-", "4", "o">> :> [input |-> 250, output |-> 1000])
    @@ (<<"g", "p", "t", "-", "4", "o", "-", "m", "i", "n", "i">> :> [input |-> 15, output |-> 60])
    @@ (<<"g", "p", "t", "-", "4", "o", "-", "2", "0", "2", "4", "-", "0", "5", "-", "1", "3">> :> [input |-> 500, output |-> 1500])
    @@ (<<"g", "p", "t", "-", "r", "e", "a", "l", "t", "i", "m", "e">> :> [input |-> 400, output |-> 1600])
    @@ (<<"g", "p", "t", "-", "r", "e", "a", "l", "t", "i", "m", "e", "-", "m", "i", "n", "i">> :> [input |-> 60, output |-> 240])
    @@ (<<"g", "p", "t", "-", "4">> :> [input |-> 3000, output |-> 6000])
    @@ (<<"g", "p", "t", "-", "4", "-", "3", "2", "k">> :> [input |-> 6000, output |-> 12000])
    @@ (<<"g", "p", "t", "-", "4", "-", "t", "u", "r", "b", "o">> :> [input |-> 1000, output |-> 3000])
    @@ (<<"g", "p", "t", "-", "3", ".", "5", "-", "t", "u", "r", "b", "o">> :> [input |-> 50, output |-> 150])
    @@ (<<"g", "p", "t", "-", "3", ".", "5", "-", "t", "u", "r", "b", "o", "-", "1", "6", "k">> :> [input |-> 300, output |-> 400])
    @@ (<<"d", "e", "f", "a", "u", "l", "t">> :> [input |-> 40, output |-> 160])

\* token_counter.py:165  the key of the fallback tier
DefaultTier == <<"d", "e", "f", "a", "u", "l", "t">>

\* Mutant: the general family names are tested before their variants.
Patterns_GeneralFirst ==
    <<<<"o", "3">>,
      <<"o", "1">>,
      <<"g", "p", "t", "-", "5">>,
      <<"g", "p", "t", "-", "4">>,
      <<"o", "3", "-", "p", "r", "o">>,
      <<"o", "1", "-", "p", "r", "o">>,
      <<"g", "p", "t", "-", "4", "o">>,
      <<"g", "p", "t", "-", "4", ".", "1">>,
      <<"o", "4", "-", "m", "i", "n", "i">>,
      <<"o", "3", "-", "m", "i", "n", "i">>,
      <<"o", "1", "-", "m", "i", "n", "i">>,
      <<"g", "p", "t", "-", "5", "-", "p", "r", "o">>,
      <<"g", "p", "t", "-", "4", "-", "3", "2", "k">>,
      <<"g", "p", "t", "-", "5", "-", "n", "a", "n", "o">>,
      <<"g", "p", "t", "-", "5", "-", "m", "i", "n", "i">>,
      <<"g", "p", "t", "-", "5", "-", "c", "o", "d", "e", "x">>,
      <<"g", "p", "t", "-", "4", "o", "-", "m", "i", "n", "i">>,
      <<"g", "p", "t", "-", "4", "-", "t", "u", "r", "b", "o">>,
      <<"g", "p", "t", "-", "4", ".", "1", "-", "n", "a", "n", "o">>,
      <<"g", "p", "t", "-", "4", ".", "1", "-", "m", "i", "n", "i">>,
      <<"g", "p", "t", "-", "r", "e", "a", "l", "t", "i", "m", "e">>,
      <<"g", "p", "t", "-", "3", ".", "5", "-", "t", "u", "r", "b", "o">>,
      <<"o", "3", "-", "d", "e", "e", "p", "-", "r", "e", "s", "e", "a", "r", "c", "h">>,
      <<"g", "p", "t", "-", "5", "-", "c", "h", "a", "t", "-", "l", "a", "t", "e", "s", "t">>,
      <<"g", "p", "t", "-", "4", "o", "-", "2", "0", "2", "4", "-", "0", "5", "-", "1", "3">>,
      <<"g", "p", "t", "-", "r", "e", "a", "l", "t", "i", "m", "e", "-", "m", "i", "n", "i">>,
      <<"g", "p", "t", "-", "3", ".", "5", "-", "t", "u", "r", "b", "o", "-", "1", "6", "k">>,
      <<"o", "4", "-", "m", "i", "n", "i", "-", "d", "e", "e", "p", "-", "r", "e", "s", "e", "a", "r", "c", "h">>>>

\* token_counter.py:191-258  the patterns of the if/elif chain, in its order
Patterns ==
    <<<<"g", "p", "t", "-", "5", "-", "p", "r", "o">>,
      <<"g", "p", "t", "-", "5", "-", "n", "a", "n", "o">>,
      <<"g", "p", "t", "-", "5", "-", "m", "i", "n", "i">>,
      <<"g", "p", "t", "-", "5", "-", "c", "h", "a", "t", "-", "l", "a", "t", "e", "s", "t">>,
      <<"g", "p", "t", "-", "5", "-", "c", "o", "d", "e", "x">>,
      <<"g", "p", "t", "-", "5">>,
      <<"g", "p", "t", "-", "4", ".", "1", "-", "n", "a", "n", "o">>,
      <<"g", "p", "t", "-", "4", ".", "1", "-", "m", "i", "n", "i">>,
      <<"g", "p", "t", "-", "4", ".", "1">>,
      <<"o", "4", "-", "m", "i", "n", "i", "-", "d", "e", "e", "p", "-", "r", "e", "s", "e", "a", "r", "c", "h">>,
      <<"o", "4", "-", "m", "i", "n", "i">>,
      <<"o", "3", "-", "d", "e", "e", "p", "-", "r", "e", "s", "e", "a", "r", "c", "h">>,
      <<"o", "3", "-", "p", "r", "o">>,
      <<"o", "3", "-", "m", "i", "n", "i">>,
      <<"o", "3">>,
      <<"o", "1", "-", "p", "r", "o">>,
      <<"o", "1", "-", "m", "i", "n", "i">>,
      <<"o", "1">>,
      <<"g", "p", "t", "-", "4", "o", "-", "m", "i", "n", "i">>,
      <<"g", "p", "t", "-", "4", "o", "-", "2", "0", "2", "4", "-", "0", "5", "-", "1", "3">>,
      <<"g", "p", "t", "-", "4", "o">>,
      <<"g", "p", "t", "-", "r", "e", "a", "l", "t", "i", "m", "e", "-", "m", "i", "n", "i">>,
      <<"g", "p", "t", "-", "r", "e", "a", "l", "t", "i", "m", "e">>,
      <<"g", "p", "t", "-", "4", "-", "t", "u", "r", "b", "o">>,
      <<"g", "p", "t", "-", "4", "-", "3", "2", "k">>,
      <<"g", "p", "t", "-", "4">>,
      <<"g", "p", "t", "-", "3", ".", "5", "-", "t", "u", "r", "b", "o", "-", "1", "6", "k">>,
      <<"g", "p", "t", "-", "3", ".", "5", "-", "t", "u", "r", "b", "o">>>>

\* str.lower() on one character
LowerChar(c) ==
    CASE c = "A" -> "a"
      [] c = "B" -> "b"
      [] c = "C" -> "c"
      [] c = "D" -> "d"
      [] c = "E" -> "e"
      [] c = "F" -> "f"
      [] c = "G" -> "g"
      [] c = "H" -> "h"
      [] c = "I" -> "i"
      [] c = "J" -> "j"
      [] c = "K" -> "k"
      [] c = "L" -> "l"
      [] c = "M" -> "m"
      [] c = "N" -> "n"
      [] c = "O" -> "o"
      [] c = "P" -> "p"
      [] c = "Q" -> "q"
      [] c = "R" -> "r"
      [] c = "S" -> "s"
      [] c = "T" -> "t"
      [] c = "U" -> "u"
      [] c = "V" -> "v"
      [] c = "W" -> "w"
      [] c = "X" -> "x"
      [] c = "Y" -> "y"
      [] c = "Z" -> "z"
      [] OTHER -> c

\* Model names passed to calculate_cost: every key of the table, each key with a
\* version suffix and with a fine-tuning prefix, and names in upper case, padded
\* with blanks, unknown, or empty.
ModelNames ==
    {<<"g", "p", "t", "-", "5">>,
     <<"g", "p", "t", "-", "5", "-", "2", "0", "2", "5">>,
     <<"f", "t", ":", "g", "p", "t", "-", "5">>,
     <<"g", "p", "t", "-", "5", "-", "m", "i", "n", "i">>,
     <<"g", "p", "t", "-", "5", "-", "m", "i", "n", "i", "-", "2", "0", "2", "5">>,
     <<"f", "t", ":", "g", "p", "t", "-", "5", "-", "m", "i", "n", "i">>,
     <<"g", "p", "t", "-", "5", "-", "n", "a", "n", "o">>,
     <<"g", "p", "t", "-", "5", "-", "n", "a", "n", "o", "-", "2", "0", "2", "5">>,
     <<"f", "t", ":", "g", "p", "t", "-", "5", "-", "n", "a", "n", "o">>,
     <<"g", "p", "t", "-", "5", "-", "c", "h", "a", "t", "-", "l", "a", "t", "e", "s", "t">>,
     <<"g", "p", "t", "-", "5", "-", "c", "h", "a", "t", "-", "l", "a", "t", "e", "s", "t", "-", "2", "0", "2", "5">>,
     <<"f", "t", ":", "g", "p", "t", "-", "5", "-", "c", "h", "a", "t", "-", "l", "a", "t", "e", "s", "t">>,
     <<"g", "p", "t", "-", "5", "-", "c", "o", "d", "e", "x">>,
     <<"g", "p", "t", "-", "5", "-", "c", "o", "d", "e", "x", "-", "2", "0", "2", "5">>,
     <<"f", "t", ":", "g", "p", "t", "-", "5", "-", "c", "o", "d", "e", "x">>,
     <<"g", "p", "t", "-", "5", "-", "p", "r", "o">>,
     <<"g", "p", "t", "-", "5", "-", "p", "r", "o", "-", "2", "0", "2", "5">>,
     <<"f", "t", ":", "g", "p", "t", "-", "5", "-", "p", "r", "o">>,
     <<"g", "p", "t", "-", "4", ".", "1">>,
     <<"g", "p", "t", "-", "4", ".", "1", "-", "2", "0", "2", "5">>,
     <<"f", "t", ":", "g", "p", "t", "-", "4", ".", "1">>,
     <<"g", "p", "t", "-", "4", ".", "1", "-", "m", "i", "n", "i">>,
     <<"g", "p", "t", "-", "4", ".", "1", "-", "m", "i", "n", "i", "-", "2", "0", "2", "5">>,
     <<"f", "t", ":", "g", "p", "t", "-", "4", ".", "1", "-", "m", "i", "n", "i">>,
     <<"g", "p", "t", "-", "4", ".", "1", "-", "n", "a", "n", "o">>,
     <<"g", "p", "t", "-", "4", ".", "1", "-", "n", "a", "n", "o", "-", "2", "0", "2", "5">>,
     <<"f", "t", ":", "g", "p", "t", "-", "4", ".", "1", "-", "n", "a", "n", "o">>,
     <<"o", "1">>,
     <<"o", "1", "-", "2", "0", "2", "5">>,
     <<"f", "t", ":", "o", "1">>,
     <<"o", "1", "-", "p", "r", "o">>,
     <<"o", "1", "-", "p", "r", "o", "-", "2", "0", "2", "5">>,
     <<"f", "t", ":", "o", "1", "-", "p", "r", "o">>,
     <<"o", "3">>,
     <<"o", "3", "-", "2", "0", "2", "5">>,
     <<"f", "t", ":", "o", "3">>,
     <<"o", "3", "-", "p", "r", "o">>,
     <<"o", "3", "-", "p", "r", "o", "-", "2", "0", "2", "5">>,
     <<"f", "t", ":", "o", "3", "-", "p", "r", "o">>,
     <<"o", "3", "-", "d", "e", "e", "p", "-", "r", "e", "s", "e", "a", "r", "c", "h">>,
     <<"o", "3", "-", "d", "e", "e", "p", "-", "r", "e", "s", "e", "a", "r", "c", "h", "-", "2", "0", "2", "5">>,
     <<"f", "t", ":", "o", "3", "-", "d", "e", "e", "p", "-", "r", "e", "s", "e", "a", "r", "c", "h">>,
     <<"o", "4", "-", "m", "i", "n", "i">>,
     <<"o", "4", "-", "m", "i", "n", "i", "-", "2", "0", "2", "5">>,
     <<"f", "t", ":", "o", "4", "-", "m", "i", "n", "i">>,
     <<"o", "4", "-", "m", "i", "n", "i", "-", "d", "e", "e", "p", "-", "r", "e", "s", "e", "a", "r", "c", "h">>,
     <<"o", "4", "-", "m", "i", "n", "i", "-", "d", "e", "e", "p", "-", "r", "e", "s", "e", "a", "r", "c", "h", "-", "2", "0", "2", "5">>,
     <<"f", "t", ":", "o", "4", "-", "m", "i", "n", "i", "-", "d", "e", "e", "p", "-", "r", "e", "s", "e", "a", "r", "c", "h">>,
     <<"o", "3", "-", "m", "i", "n", "i">>,
     <<"o", "3", "-", "m", "i", "n", "i", "-", "2", "0", "2", "5">>,
     <<"f", "t", ":", "o", "3", "-", "m", "i", "n", "i">>,
     <<"o", "1", "-", "m", "i", "n", "i">>,
     <<"o", "1", "-", "m", "i", "n", "i", "-", "2", "0", "2", "5">>,
     <<"f", "t", ":", "o", "1", "-", "m", "i", "n", "i">>,
     <<"g", "p", "t", "-", "4", "o">>,
     <<"g", "p", "t", "-", "4", "o", "-", "2", "0", "2", "5">>,
     <<"f", "t", ":", "g", "p", "t", "-", "4", "o">>,
     <<"g", "p", "t", "-", "4", "o", "-", "m", "i", "n", "i">>,
     <<"g", "p", "t", "-", "4", "o", "-", "m", "i", "n", "i", "-", "2", "0", "2", "5">>,
     <<"f", "t", ":", "g", "p", "t", "-", "4", "o", "-", "m", "i", "n", "i">>,
     <<"g", "p", "t", "-", "4", "o", "-", "2", "0", "2", "4", "-", "0", "5", "-", "1", "3">>,
     <<"g", "p", "t", "-", "4", "o", "-", "2", "0", "2", "4", "-", "0", "5", "-", "1", "3", "-", "2", "0", "2", "5">>,
     <<"f", "t", ":", "g", "p", "t", "-", "4", "o", "-", "2", "0", "2", "4", "-", "0", "5", "-", "1", "3">>,
     <<"g", "p", "t", "-", "r", "e", "a", "l", "t", "i", "m", "e">>,
     <<"g", "p", "t", "-", "r", "e", "a", "l", "t", "i", "m", "e", "-", "2", "0", "2", "5">>,
     <<"f", "t", ":", "g", "p", "t", "-", "r", "e", "a", "l", "t", "i", "m", "e">>,
     <<"g", "p", "t", "-", "r", "e", "a", "l", "t", "i", "m", "e", "-", "m", "i", "n", "i">>,
     <<"g", "p", "t", "-", "r", "e", "a", "l", "t", "i", "m", "e", "-", "m", "i", "n", "i", "-", "2", "0", "2", "5">>,
     <<"f", "t", ":", "g", "p", "t", "-", "r", "e", "a", "l", "t", "i", "m", "e", "-", "m", "i", "n", "i">>,
     <<"g", "p", "t", "-", "4">>,
     <<"g", "p", "t", "-", "4", "-", "2", "0", "2", "5">>,
     <<"f", "t", ":", "g", "p", "t", "-", "4">>,
     <<"g", "p", "t", "-", "4", "-", "3", "2", "k">>,
     <<"g", "p", "t", "-", "4", "-", "3", "2", "k", "-", "2", "0", "2", "5">>,
     <<"f", "t", ":", "g", "p", "t", "-", "4", "-", "3", "2", "k">>,
     <<"g", "p", "t", "-", "4", "-", "t", "u", "r", "b", "o">>,
     <<"g", "p", "t", "-", "4", "-", "t", "u", "r", "b", "o", "-", "2", "0", "2", "5">>,
     <<"f", "t", ":", "g", "p", "t", "-", "4", "-", "t", "u", "r", "b", "o">>,
     <<"g", "p", "t", "-", "3", ".", "5", "-", "t", "u", "r", "b", "o">>,
     <<"g", "p", "t", "-", "3", ".", "5", "-", "t", "u", "r", "b", "o", "-", "2", "0", "2", "5">>,
     <<"f", "t", ":", "g", "p", "t", "-", "3", ".", "5", "-", "t", "u", "r", "b", "o">>,
     <<"g", "p", "t", "-", "3", ".", "5", "-", "t", "u", "r", "b", "o", "-", "1", "6", "k">>,
     <<"g", "p", "t", "-", "3", ".", "5", "-", "t", "u", "r", "b", "o", "-", "1", "6", "k", "-", "2", "0", "2", "5">>,
     <<"f", "t", ":", "g", "p", "t", "-", "3", ".", "5", "-", "t", "u", "r", "b", "o", "-", "1", "6", "k">>,
     <<"G", "P", "T", "-", "4", "o", "-", "M", "i", "n", "i">>,
     <<" ", "g", "p", "t", "-", "4", "o", " ">>,
     <<"u", "n", "k", "n", "o", "w", "n", "-", "m", "o", "d", "e", "l">>,
     <<>>,
     <<"d", "e", "f", "a", "u", "l", "t">>,
     <<"c", "h", "a", "t", "g", "p", "t", "-", "4", "o", "-", "l", "a", "t", "e", "s", "t">>,
     <<"o", "1", "-", "p", "r", "e", "v", "i", "e", "w">>,
     <<"G", "P", "T", "-", "4", "-", "0", "6", "1", "3">>,
     <<"g", "p", "t", " ", "4">>,
     <<"s", "o", "l", "o", "3">>,
     <<"g", "p", "t", "-", "4", "o", "1", "-", "m", "i", "n", "i">>}

\* (input_tokens, output_tokens) of the calls.
TokenPairs == {<<0, 0>>, <<1000, 500>>, <<1500, 800>>, <<2, 18>>, <<18, 2>>, <<7, 3>>}


\* Python's `pattern in name` on strings
Contains(name, pattern) ==
    \E i \in 0..(Len(name) - Len(pattern)) : SubSeq(name, i + 1, i + Len(pattern)) = pattern

\* str.lower()
LowerName(name) == [k \in 1..Len(name) |-> LowerChar(name[k])]

\* token_counter.py:189-261  the first branch of the chain whose pattern is in the
\* name; each branch returns its own pattern, the else branch returns "default"
RECURSIVE FirstMatch(_, _)
FirstMatch(model_lower, k) ==
    IF k > Len(Patterns) THEN DefaultTier
    ELSE IF Contains(model_lower, Patterns[k]) THEN Patterns[k]
    ELSE FirstMatch(model_lower, k + 1)

\* Mutant: the name is compared as it was given, in its own case.
normalize_model_name_CaseSensitive(model_name) ==
    LET model_lower == Strip(model_name)
    IN IF model_lower \in DOMAIN PRICING THEN model_lower ELSE FirstMatch(model_lower, 1)

\* token_counter.py:178-261  _normalize_model_name
normalize_model_name(model_name) ==
    LET model_lower == Strip(LowerName(model_name))
    IN IF model_lower \in DOMAIN PRICING THEN model_lower ELSE FirstMatch(model_lower, 1)

\* token_counter.py:168-175  the float products whose decimal expansion ends in
\* ...5 at the seventh place, and which round(x, 6) rounds up: <<tokens, price>>;
\* every other such product of the calls made here is rounded down
ProductRoundsUp == {<<2, 125>>, <<3, 150>>, <<7, 250>>, <<18, 25>>}

\* token_counter.py:170, 175  the same for the sums input_cost + output_cost:
\* <<input_tokens, input price, output_tokens, output price>>
SumRoundsUp == {<<7, 250, 3, 1000>>, <<18, 125, 2, 1000>>}

\* round(x, 6) of an amount of `units` * 0.00000001 USD, in units of 0.000001 USD
Round6(units, up) ==
    LET whole == units \div 100
        rest == units % 100
    IN IF rest < 50 THEN whole
       ELSE IF rest > 50 THEN whole + 1
       ELSE IF up THEN whole + 1 ELSE whole

\* Mutant: the total is the sum of the two rounded costs.
TotalCost_OfRounded(input_tokens_, input_price, output_tokens_, output_price) ==
    Round6(input_tokens_ * input_price, <<input_tokens_, input_price>> \in ProductRoundsUp)
        + Round6(output_tokens_ * output_price, <<output_tokens_, output_price>> \in ProductRoundsUp)

\* token_counter.py:170, 175  total_cost = input_cost + output_cost, rounded
TotalCost(input_tokens_, input_price, output_tokens_, output_price) ==
    Round6(input_tokens_ * input_price + output_tokens_ * output_price,
           <<input_tokens_, input_price, output_tokens_, output_price>> \in SumRoundsUp)

\* token_counter.py:148-176  calculate_cost
calculate_cost(model_name, input_tokens_, output_tokens_) ==
    LET normalized == normalize_model_name(model_name)
        pricing == IF normalized \in DOMAIN PRICING THEN PRICING[normalized]
                   ELSE PRICING[DefaultTier]
    IN [input_cost |-> Round6(input_tokens_ * pricing.input,
                              <<input_tokens_, pricing.input>> \in ProductRoundsUp),
        output_cost |-> Round6(output_tokens_ * pricing.output,
                               <<output_tokens_, pricing.output>> \in ProductRoundsUp),
        total_cost |-> TotalCost(input_tokens_, pricing.input, output_tokens_, pricing.output)]

\* The arguments of one call.
CostCalls == {[model_name |-> n, input_tokens |-> t[1], output_tokens |-> t[2]] :
                 n \in ModelNames, t \in TokenPairs}

\* A caller is about to price a pair of token counts.
InitCost ==
    /\ cost_pc = "call"
    /\ cost_args \in CostCalls
    /\ normalized_model = None
    /\ cost_result = None
    /\ cost_repeat = None
    /\ SchedIdle
    /\ TranslateIdle
    /\ PptxIdle
    /\ TokensIdle
    /\ QueryIdle

\* token_counter.py:148-176  the call
CalculateCost ==
    /\ cost_pc = "call"
    /\ normalized_model' = Some(normalize_model_name(cost_args.model_name))
    /\ cost_result' = Some(calculate_cost(cost_args.model_name, cost_args.input_tokens,
                                          cost_args.output_tokens))
    /\ cost_pc' = "returned"
    /\ UNCHANGED <<cost_args, cost_repeat>>
    /\ UNCHANGED <<sched_vars, tr_vars, pptx_vars, tok_vars, query_vars>>

\* token_counter.py:148-176  a later call with the same arguments
CalculateCostAgain ==
    /\ cost_pc = "returned"
    /\ cost_repeat' = Some(calculate_cost(cost_args.model_name, cost_args.input_tokens,
                                          cost_args.output_tokens))
    /\ cost_pc' = "repeated"
    /\ UNCHANGED <<cost_args, normalized_model, cost_result>>
    /\ UNCHANGED <<sched_vars, tr_vars, pptx_vars, tok_vars, query_vars>>

NextCost == CalculateCost \/ CalculateCostAgain

\* =========================================================================
\* TiktokenCountCallback (backend/token_counter.py)
\* =========================================================================
\* token_counter.py:300, 324  len(self.enc.encode(text)): a byte-pair encoding
\* turns a text into tokens by merging adjacent characters, so the count of a
\* concatenation is not the sum of the counts of its parts.  Here the one merge
\* is "a" followed by "b", applied from left to right.
RECURSIVE TokenCount(_)
TokenCount(text) ==
    IF text = <<>> THEN 0
    ELSE IF Len(text) >= 2 /\ text[1] = "a" /\ text[2] = "b"
         THEN 1 + TokenCount(SubSeq(text, 3, Len(text)))
    ELSE 1 + TokenCount(Tail(text))

\* token_counter.py:299-300, 321-328  the loops `counter += len(enc.encode(t))`
RECURSIVE SumTokens(_)
SumTokens(ts) ==
    IF ts = <<>> THEN 0 ELSE TokenCount(Head(ts)) + SumTokens(Tail(ts))

\* The LLMResult passed to on_llm_end: one generation list with one generation
\* whose text is the whole response, streamed or not.
Response(run) == [generations |-> << <<[text |-> Flatten(run.chunks)]>> >>]

\* token_counter.py:270  model: str = "gpt-4.1-mini"
Gpt41Mini == <<"g", "p", "t", "-", "4", ".", "1", "-", "m", "i", "n", "i">>

\* The prompts lists of the LLM calls.
PromptLists == {<< <<"a", "b">> >>, << <<"b">>, <<"a">> >>}

\* The responses of the LLM calls, as the chunks they are streamed in.
ChunkLists == {<< <<"a">>, <<"b">> >>, << <<"b", "a">> >>}

\* token_counter.py:294-300  on_llm_start
on_llm_start(counter, prompts) == counter + SumTokens(prompts)

\* token_counter.py:302-309  on_llm_new_token
on_llm_new_token(buffer, token) == Append(buffer, token)

\* token_counter.py:311-328  on_llm_end: the new output_tokens and buffer
on_llm_end(counter, buffer, response) ==
    IF buffer # <<>>
    THEN [output_tokens |-> counter + TokenCount(Flatten(buffer)), buffer |-> <<>>]
    ELSE IF response.generations # <<>>
    THEN [output_tokens |-> counter + SumTokens(
              [k \in 1..Len(Flatten(response.generations)) |->
                  Flatten(response.generations)[k].text]),
          buffer |-> buffer]
    ELSE [output_tokens |-> counter, buffer |-> buffer]

\* Mutant: the total is the input count alone.
total_tokens_InputOnly(input, output) == input

\* token_counter.py:330-333  total_tokens
total_tokens(input, output) == input + output

\* token_counter.py:335-359  get_cost_breakdown and get_metrics
get_metrics(model, input, output) ==
    LET cost_breakdown == calculate_cost(model, input, output)
    IN [model |-> model,
        input_tokens |-> input,
        output_tokens |-> output,
        total_tokens |-> total_tokens(input, output),
        input_cost_usd |-> cost_breakdown.input_cost,
        output_cost_usd |-> cost_breakdown.output_cost,
        total_cost_usd |-> cost_breakdown.total_cost]

\* token_counter.py:270-292  a callback has been constructed and handed to
\* MaxRuns LLM calls, all streaming or none
InitTokens ==
    /\ tok_pc = "__init__"
    /\ cb_model = Gpt41Mini
    /\ input_tokens = 0
    /\ output_tokens = 0
    /\ current_run_outputs = <<>>
    /\ \E streaming \in BOOLEAN :
          llm_runs \in [1..MaxRuns -> [pc : {"pending"}, prompts : PromptLists,
                                       chunks : ChunkLists, streaming : {streaming},
                                       sent : {0}]]
    /\ last_metrics = None
    /\ was_reset = FALSE
    /\ SchedIdle
    /\ TranslateIdle
    /\ PptxIdle
    /\ CostIdle
    /\ QueryIdle

\* token_counter.py:294-300
OnLlmStart ==
    \E r \in DOMAIN llm_runs :
        /\ llm_runs[r].pc = "pending"
        /\ input_tokens' = on_llm_start(input_tokens, llm_runs[r].prompts)
        /\ llm_runs' = [llm_runs EXCEPT ![r].pc = "started"]
        /\ tok_pc' = "on_llm_start"
        /\ last_metrics' = None
        /\ UNCHANGED <<cb_model, output_tokens, current_run_outputs, was_reset>>
        /\ UNCHANGED <<sched_vars, tr_vars, pptx_vars, cost_vars, query_vars>>

\* token_counter.py:302-309
OnLlmNewToken ==
    \E r \in DOMAIN llm_runs :
        /\ llm_runs[r].pc = "started"
        /\ llm_runs[r].streaming
        /\ llm_runs[r].sent < Len(llm_runs[r].chunks)
        /\ current_run_outputs' = on_llm_new_token(current_run_outputs,
                                      llm_runs[r].chunks[llm_runs[r].sent + 1])
        /\ llm_runs' = [llm_runs EXCEPT ![r].sent = @ + 1]
        /\ tok_pc' = "on_llm_new_token"
        /\ last_metrics' = None
        /\ UNCHANGED <<cb_model, input_tokens, output_tokens, was_reset>>
        /\ UNCHANGED <<sched_vars, tr_vars, pptx_vars, cost_vars, query_vars>>

\* token_counter.py:311-328
OnLlmEnd ==
    \E r \in DOMAIN llm_runs :
        /\ llm_runs[r].pc = "started"
        /\ llm_runs[r].streaming => llm_runs[r].sent = Len(llm_runs[r].chunks)
        /\ LET after == on_llm_end(output_tokens, current_run_outputs, Response(llm_runs[r]))
           IN /\ output_tokens' = after.output_tokens
              /\ current_run_outputs' = after.buffer
        /\ llm_runs' = [llm_runs EXCEPT ![r].pc = "ended"]
        /\ tok_pc' = "on_llm_end"
        /\ last_metrics' = None
        /\ UNCHANGED <<cb_model, input_tokens, was_reset>>
        /\ UNCHANGED <<sched_vars, tr_vars, pptx_vars, cost_vars, query_vars>>

\* token_counter.py:344-359
GetMetrics ==
    /\ tok_pc # "idle"
    /\ last_metrics' = Some(get_metrics(cb_model, input_tokens, output_tokens))
    /\ tok_pc' = "get_metrics"
    /\ UNCHANGED <<cb_model, input_tokens, output_tokens, current_run_outputs, llm_runs,
                   was_reset>>
    /\ UNCHANGED <<sched_vars, tr_vars, pptx_vars, cost_vars, query_vars>>

\* token_counter.py:361-368
ResetCounters ==
    /\ tok_pc # "idle"
    /\ input_tokens' = 0
    /\ output_tokens' = 0
    /\ current_run_outputs' = <<>>
    /\ was_reset' = TRUE
    /\ tok_pc' = "reset_counters"
    /\ last_metrics' = None
    /\ UNCHANGED <<cb_model, llm_runs>>
    /\ UNCHANGED <<sched_vars, tr_vars, pptx_vars, cost_vars, query_vars>>

NextTokens == OnLlmStart \/ OnLlmNewToken \/ OnLlmEnd \/ GetMetrics \/ ResetCounters

\* =========================================================================
\* The GET handlers of backend/main.py
\* =========================================================================
\* main.py:351, 361  translation_queue.qsize()
qsize(queue) == Len(queue)

\* main.py:338-365  get_job_status
get_job_status(jobs, queue, job_id) ==
    IF job_id \notin DOMAIN jobs
    THEN [handler |-> "get_job_status", asked |-> job_id, code |-> 404]
    ELSE LET job == jobs[job_id]
             queue_position == IF job.status = "queued" THEN qsize(queue) ELSE 0
         IN [handler |-> "get_job_status", asked |-> job_id, code |-> 200,
             job_id |-> job_id, status |-> job.status, filename |-> job.filename,
             pages |-> job.pages, text_count |-> job.text_count,
             target_lang |-> job.target_lang, queue_position |-> queue_position,
             total_in_queue |-> qsize(queue), error_message |-> job.error_message,
             created_at |-> job.created_at, completed_at |-> job.completed_at]

\* Mutant: every job of the registry is listed as waiting.
WithStatus_Any(jobs, st) == DOMAIN jobs

\* main.py:435-436  [job for job in active_jobs.values() if job.status == st]
WithStatus(jobs, st) == {j \in DOMAIN jobs : jobs[j].status = st}

\* main.py:447  sorted(queued_jobs, key=lambda x: x.created_at): a stable sort
\* of the jobs in insertion order, which is the order of the job ids
RECURSIVE SortedByCreatedAt(_, _)
SortedByCreatedAt(jobs, ids) ==
    IF ids = {} THEN <<>>
    ELSE LET first == CHOOSE j \in ids :
                         \A k \in ids : \/ jobs[j].created_at < jobs[k].created_at
                                        \/ (jobs[j].created_at = jobs[k].created_at /\ j <= k)
         IN <<first>> \o SortedByCreatedAt(jobs, ids \ {first})

\* main.py:431-449  get_queue_status
get_queue_status(jobs, bound) ==
    LET queued_jobs == WithStatus(jobs, "queued")
        processing_jobs == WithStatus(jobs, "processing")
        sorted == SortedByCreatedAt(jobs, queued_jobs)
    IN [handler |-> "get_queue_status", code |-> 200,
        queue_size |-> Cardinality(queued_jobs),
        processing_count |-> Cardinality(processing_jobs),
        max_concurrent |-> bound,
        queued_jobs |-> [k \in 1..Len(sorted) |->
                            [job_id |-> sorted[k], filename |-> jobs[sorted[k]].filename,
                             created_at |-> jobs[sorted[k]].created_at]]]

\* main.py:338-365  GET /api/status/{job_id}, for the ids handed out and one
\* that was never handed out
GetJobStatus ==
    /\ \E job_id \in 1..(jobs_created + 1) :
          query_response' = Some(get_job_status(active_jobs, translation_queue, job_id))
    /\ UNCHANGED <<sched_vars, tr_vars, pptx_vars, cost_vars, tok_vars>>

\* main.py:431-449  GET /api/queue
GetQueueStatus ==
    /\ query_response' = Some(get_queue_status(active_jobs, MAX_CONCURRENT_TRANSLATIONS))
    /\ UNCHANGED <<sched_vars, tr_vars, pptx_vars, cost_vars, tok_vars>>

\* A step of an upload or of the worker task; the answer of the last GET request
\* has been delivered.
SchedulerStep ==
    /\ Upload \/ Requeue \/ Admit \/ Wake \/ PipelineReturns \/ PipelineRaises
    /\ query_response' = None
    /\ UNCHANGED <<tr_vars, pptx_vars, cost_vars, tok_vars>>

NextQuery == SchedulerStep \/ GetJobStatus \/ GetQueueStatus

\* =========================================================================
\* Specifications
\* =========================================================================
vars == <<sched_vars, tr_vars, pptx_vars, cost_vars, tok_vars, query_vars>>

NextSched ==
    /\ Upload \/ Requeue \/ Admit \/ Wake \/ PipelineReturns \/ PipelineRaises
    /\ UNCHANGED <<tr_vars, pptx_vars, cost_vars, tok_vars, query_vars>>

NextFault ==
    /\ Upload \/ Requeue \/ Admit \/ Wake \/ PipelineReturns \/ PipelineRaises
         \/ SinkRaises
    /\ UNCHANGED <<tr_vars, pptx_vars, cost_vars, tok_vars, query_vars>>

\* The scheduler as the code runs it.
Init == InitSched /\ TranslateIdle /\ PptxIdle /\ CostIdle /\ TokensIdle /\ QueryIdle

Spec == Init /\ [][NextSched]_vars

\* The scheduler with a metrics sink that may raise.
SpecFault == Init /\ [][NextFault]_vars

\* The same, with the event loop running the worker task whenever it can take
\* a step, and every pipeline call ending.
WorkerFault ==
    /\ Requeue \/ Admit \/ Wake \/ PipelineReturns \/ PipelineRaises \/ SinkRaises
    /\ UNCHANGED <<tr_vars, pptx_vars, cost_vars, tok_vars, query_vars>>

LiveSpec == Init /\ [][NextFault]_vars /\ WF_vars(WorkerFault)

\* The scheduler with status and queue queries between its steps.
SpecQuery == Init /\ [][NextQuery]_vars

\* One call of translate_texts_openai_async against every backend behaviour.
SpecTranslate == InitTranslate /\ [][NextTranslate]_vars

\* One deck analysed at upload and then translated.
SpecPptx == InitPptx /\ [][NextPptx]_vars

\* One callback shared by the LLM calls of a job, their events interleaved.
SpecTokens == InitTokens /\ [][NextTokens]_vars

\* One pair of token counts priced, twice, for every model name.
SpecCost == InitCost /\ [][NextCost]_vars

\* =========================================================================
\* Properties of the scheduler
\* =========================================================================
JobIds == DOMAIN active_jobs

InStatus(st) == {j \in JobIds : active_jobs[j].status = st}

StatusOf(j) == IF j \in JobIds THEN active_jobs[j].status ELSE "absent"

RecordsOf(j) == {k \in 1..Len(metrics_log) : metrics_log[k].job = j}

\* C1: for a concurrency bound N >= 1, whatever the submissions and worker steps,
\* the number of jobs whose status is "processing" never exceeds N.
C1_ConcurrencyBound ==
    MAX_CONCURRENT_TRANSLATIONS >= 1 =>
        Cardinality(InStatus("processing")) <= MAX_CONCURRENT_TRANSLATIONS

\* More jobs submitted than the bound allows: one runs while another waits.
C1_Witness ==
    /\ MAX_CONCURRENT_TRANSLATIONS = 1
    /\ jobs_created > MAX_CONCURRENT_TRANSLATIONS
    /\ Cardinality(InStatus("processing")) = 1
    /\ Cardinality(InStatus("queued")) >= 1

AllowedTransitions ==
    {<<"queued", "processing">>, <<"processing", "completed">>, <<"processing", "failed">>}

\* C2: every status change of a job is queued->processing, processing->completed
\* or processing->failed; a job starts queued, never returns to queued and never
\* leaves completed or failed.
C2_StatusTransitions ==
    \A j \in JobIds :
        LET h == status_history[j] IN
        /\ h[1] = "queued"
        /\ h[Len(h)] = active_jobs[j].status
        /\ \A k \in 1..(Len(h) - 1) : <<h[k], h[k + 1]>> \in AllowedTransitions

\* A job that has gone through the whole chain while a later one is under way.
C2_Witness ==
    \E j, k \in JobIds :
        /\ status_history[j] = <<"queued", "processing", "failed">>
        /\ status_history[k] = <<"queued", "processing">>

\* C3: when the pipeline call returns without raising, the job goes
\* queued->processing->completed, its completion timestamp is set and a
\* "completed" record with the pipeline's page and unit counts is emitted.
C3_SuccessCompletes ==
    \A j \in JobIds :
        (pipeline_outcome[j] # <<>> /\ pipeline_outcome[j][1].call = "returned") =>
            /\ status_history[j] = <<"queued", "processing", "completed">>
            /\ active_jobs[j].completed_at # None
            /\ \E k \in RecordsOf(j) :
                  /\ metrics_log[k].status = "completed"
                  /\ metrics_log[k].pages = active_jobs[j].pages

\* C4 (state part): a job whose pipeline raised is failed with a non-empty
\* message and a completion timestamp, and its record is a "failed" record
\* with zero tokens, zero cost and the counts of the submit-time analysis.
C4_FailedJob ==
    \A j \in JobIds :
        (pipeline_outcome[j] # <<>> /\ pipeline_outcome[j][1].handler) =>
            /\ active_jobs[j].status = "failed"
            /\ active_jobs[j].error_message # None
            /\ active_jobs[j].error_message[1] # <<>>
            /\ active_jobs[j].completed_at # None
            /\ RecordsOf(j) # {}
            /\ \A k \in RecordsOf(j) :
                  /\ metrics_log[k].status = "failed"
                  /\ metrics_log[k].input_tokens = Some(0)
                  /\ metrics_log[k].output_tokens = Some(0)
                  /\ metrics_log[k].total_tokens = Some(0)
                  /\ metrics_log[k].total_cost_usd = Some(0)
                  /\ metrics_log[k].pages = active_jobs[j].pages
                  /\ metrics_log[k].text_count = active_jobs[j].text_count
                  /\ metrics_log[k].error_message = active_jobs[j].error_message

\* C4 (frame part): the step that ends a job changes the status of no other job.
C4_OthersUntouched ==
    (worker_pc = "running" /\ worker_pc' # "running") =>
        \A k \in JobIds :
            k # worker_request[1].job_id => active_jobs'[k].status = active_jobs[k].status

\* C4: when anything raises inside the pipeline of an admitted job, that job
\* ends failed with a non-empty error message and a completion timestamp, its
\* metrics record is a "failed" record with tokens 0, cost 0 and the submit-time
\* page and unit counts, and the statuses of all other jobs are unchanged.
C4_FailureHandling == []C4_FailedJob /\ [][C4_OthersUntouched]_vars

\* A job has failed while another job, untouched, is still queued.
C4_Witness ==
    \E j, k \in JobIds :
        /\ pipeline_outcome[j] # <<>> /\ pipeline_outcome[j][1].call = "raised"
        /\ active_jobs[j].status = "failed"
        /\ active_jobs[k].status = "queued"

\* C5: each increment of the in-flight counter is matched by exactly one
\* decrement and one snapshot on every exit path: the counter is never negative,
\* it is one above its pre-admission value while a job runs and back at that
\* value (0, all increments matched) once the job's handling has ended.
C5_CounterBalanced ==
    /\ processing_count >= 0
    /\ processing_count = increments - decrements
    /\ Len(queue_status_log) = decrements
    /\ worker_pc = "running" => increments = decrements + 1
    /\ worker_pc # "running" => increments = decrements

\* An exception escaped the failure handler and the slot was still given back.
C5_Witness ==
    /\ escaped >= 1
    /\ worker_pc = "error_sleep"
    /\ increments >= 1
    /\ processing_count = 0

\* C6: the worker loop never ends because of an exception: after a failure,
\* also one that escapes the handler, the loop sleeps, goes back to taking the
\* head of the queue, and (bound >= 1) every job still queued is admitted.
C6_LoopSurvives ==
    /\ [](worker_pc # "dead")
    /\ (worker_pc = "error_sleep") ~> (worker_pc = "get")
    /\ \A j \in 1..MaxJobs :
          (MAX_CONCURRENT_TRANSLATIONS >= 1 /\ StatusOf(j) = "queued")
              ~> (StatusOf(j) \in {"processing", "completed", "failed"})

\* After an exception escaped the handler a later job has been admitted.
C6_Witness ==
    /\ escaped >= 1
    /\ worker_pc = "running"

\* =========================================================================
\* Properties of translate_texts_openai_async
\* =========================================================================
Positions == 1..Len(texts)

NonBlank(p) == Strip(texts[p]) # <<>>

\* The task that carries position p: non-blank entries are dealt out in order,
\* batch_size to a task.
BatchOf(p) == ((Cardinality({q \in 1..p : NonBlank(q)}) - 1) \div batch_size) + 1

ResponseOf(p) == responses[BatchOf(p)][1]

PositionsOfBatch(b) == {q \in Positions : NonBlank(q) /\ BatchOf(q) = b}

\* Entries of a translations list that carry id.
EntriesFor(tr, id) ==
    {k \in 1..Len(tr) : "id" \in DOMAIN tr[k] /\ tr[k]["id"] = id}

IsTranslation(e) ==
    "translated" \in DOMAIN e /\ IsText(e["translated"]) /\ Strip(e["translated"]) # <<>>

IsBlankTranslation(e) ==
    "translated" \in DOMAIN e /\ IsText(e["translated"]) /\ Strip(e["translated"]) = <<>>

\* C7: the output has the length of the input, holds strings only, and is empty
\* at exactly the positions whose input is empty or whitespace-only, whatever
\* the backend answered.
C7_LengthAndBlanks ==
    tr_pc = "done" =>
        /\ Len(final_results) = Len(texts)
        /\ \A p \in Positions :
              /\ IsText(final_results[p])
              /\ (final_results[p] = <<>>) <=> ~NonBlank(p)

\* Two batches, one of which failed, on an input with a blank entry.
C7_Witness ==
    /\ tr_pc = "done"
    /\ Len(tasks) = 2
    /\ \E b \in 1..2 : responses[b][1].kind = "raise"
    /\ \E p \in Positions : ~NonBlank(p)
    /\ \E p \in Positions : NonBlank(p) /\ final_results[p] # Strip(texts[p])

\* C8 as stated: a position whose batch response contains a non-blank
\* translation for its id is output as such a translation.
C8_Original ==
    tr_pc = "done" =>
        \A p \in Positions :
            LET tr == ResponseOf(p).translations
                K == {k \in EntriesFor(tr, TextId(p - 1)) : IsTranslation(tr[k])}
            IN (NonBlank(p) /\ K # {}) =>
                   \E k \in K : final_results[p] = tr[k]["translated"]

\* The response is handled without an error: every entry has both fields and
\* the entry that counts for each id of the batch (the last one) holds text.
Usable(response, members) ==
    /\ response.kind = "list"
    /\ \A k \in 1..Len(response.translations) :
          {"id", "translated"} \subseteq DOMAIN response.translations[k]
    /\ \A q \in members :
          LET K == EntriesFor(response.translations, TextId(q - 1))
          IN K # {} => IsText(response.translations[Last(K)]["translated"])

\* C8 (amended): when the batch response is handled without error and the last
\* entry for the id of a non-blank position is a non-blank translation, the
\* output at that position is that translation, whatever the order of the
\* entries for different ids and the order in which the tasks finished.
C8_OrderPreserved ==
    tr_pc = "done" =>
        \A b \in 1..Len(tasks) :
            LET members == PositionsOfBatch(b)
                tr == responses[b][1].translations
            IN Usable(responses[b][1], members) =>
                  \A p \in members :
                      LET K == EntriesFor(tr, TextId(p - 1))
                      IN (K # {} /\ IsTranslation(tr[Last(K)])) =>
                             final_results[p] = tr[Last(K)]["translated"]

\* The second task finished first, the first answered in reverse order, and a
\* position of each task received its translation.
C8_Witness ==
    /\ tr_pc = "done"
    /\ completion_order = <<2, 1>>
    /\ Usable(responses[1][1], PositionsOfBatch(1))
    /\ Len(responses[1][1].translations) = batch_size
    /\ responses[1][1].translations[1]["id"] = tasks[1][batch_size].id
    /\ \A b \in 1..2 : \E p \in Positions :
          /\ NonBlank(p) /\ BatchOf(p) = b
          /\ final_results[p] = <<"T">> \o Strip(texts[p])

\* The backend result for position p is unusable in one of the four ways named:
\* the call raised, the response is no mapping with a translations entry, the
\* id is missing, or the translation returned for it is blank.
Unusable(p) ==
    LET response == ResponseOf(p)
        K == EntriesFor(response.translations, TextId(p - 1))
    IN \/ response.kind \in {"raise", "not_dict", "no_key"}
       \/ /\ response.kind = "list"
          /\ \/ K = {}
             \/ \A k \in K : IsBlankTranslation(response.translations[k])

\* C9 as stated: a position whose backend result is unusable is output as the
\* original input string, leading and trailing whitespace included.
C9_FallbackUnchanged ==
    tr_pc = "done" =>
        \A p \in Positions :
            (NonBlank(p) /\ Unusable(p)) => final_results[p] = texts[p]

\* Answers put in the place of the one a task received.
Alternatives(chunk) ==
    {[kind |-> k, translations |-> <<>>] : k \in {"raise", "list"}}
    \cup {[kind |-> "list", translations |-> ListWith(chunk, "ok", d, "nofield")] :
             d \in {0, 1}}

\* C10: changing the outcome of one batch (an error, a malformed or a different
\* response) changes the output at no position outside that batch.
C10_BatchIsolation ==
    tr_pc = "done" =>
        \A b \in 1..Len(tasks) : \A alt \in Alternatives(tasks[b]) :
            LET other == translate_texts_openai_async(texts,
                            [c \in 1..Len(tasks) |->
                                IF c = b THEN alt ELSE responses[c][1]])
            IN \A p \in Positions :
                  (~NonBlank(p) \/ BatchOf(p) # b) => other[p] = final_results[p]

\* The first batch failed and a position of the second one was translated.
C10_Witness ==
    /\ tr_pc = "done"
    /\ Len(tasks) = 2
    /\ responses[1][1].kind = "raise"
    /\ \E p \in Positions :
          /\ NonBlank(p) /\ BatchOf(p) = 2
          /\ final_results[p] = <<"T">> \o Strip(texts[p])

\* C11: whatever each batch's backend call does (raises, answers with something
\* that is no mapping, with a translations value that is no list of id/translated
\* records, or with ids missing), no exception leaves
\* translate_texts_openai_async: every task hands back one text per item and the
\* call returns a list.
C11_NeverRaises ==
    /\ tr_pc # "raised"
    /\ tr_pc = "gather" =>
          \A b \in 1..Len(tasks) :
              responses[b] # None =>
                  /\ results[b] # None
                  /\ Len(results[b][1]) = Len(tasks[b])
    /\ tr_pc = "done" => Len(final_results) = Len(texts)

\* Both batches failed, in different ways, and the call returned.
C11_Witness ==
    /\ tr_pc = "done"
    /\ Len(tasks) = 2
    /\ \E b, c \in 1..2 :
          /\ responses[b][1].kind = "raise"
          /\ TryBlockError(tasks[c], responses[c][1]) \in {"TypeError", "AttributeError"}

C13_BatchesPartition ==
    tr_pc \in {"gather", "done"} =>
        LET all == Flatten(tasks)
            sent == {x \in (1..Len(tasks)) \X (1..batch_size) : x[2] <= Len(tasks[x[1]])}
            wanted == {p \in Positions : NonBlank(p)}
        IN /\ \A p \in wanted :
                 Cardinality({x \in sent : tasks[x[1]][x[2]].id = TextId(p - 1)}) = 1
           /\ \A x \in sent :
                 LET item == tasks[x[1]][x[2]]
                     p == item.id[2] + 1
                 IN /\ p \in wanted
                    /\ item = [id |-> TextId(p - 1), text |-> Strip(texts[p])]
           /\ \A b \in 1..Len(tasks) :
                 /\ Len(tasks[b]) \in 1..batch_size
                 /\ b < Len(tasks) => Len(tasks[b]) = batch_size
           /\ Len(all) = Cardinality(wanted)
           /\ \A i \in 1..(Len(all) - 1) : all[i].id[2] < all[i + 1].id[2]

\* An input with a blank entry and more than batch_size non-blank ones: a full
\* batch followed by a shorter one.
C13_Witness ==
    /\ tr_pc = "gather"
    /\ Len(tasks) = 2
    /\ Len(tasks[1]) = batch_size
    /\ Len(tasks[2]) < batch_size
    /\ \E p \in Positions : ~NonBlank(p)

\* =========================================================================
\* Properties of analyze_pptx and translate_pptx_async
\* =========================================================================
\* The text of the slot ref in a list of slots.
TextAt(slots, ref) ==
    LET i == CHOOSE i \in 1..Len(slots) : slots[i].ref = ref IN slots[i].text

NonBlankSlots(slots) == {i \in 1..Len(slots) : Strip(slots[i].text) # <<>>}

C17_Step ==
    (UNCHANGED <<worker_pc, worker_request, processing_count>> /\ http_response' # 200) =>
        UNCHANGED <<active_jobs, translation_queue, metrics_log, jobs_created>>

\* C17 (state part): no job exists, in the registry or in the queue, for a
\* language other than "ja" and "en", for a name that is no .pptx name, for a
\* file over the size limit or for a deck whose analysis failed.
C17_OnlyValidJobs ==
    /\ \A j \in JobIds :
          /\ active_jobs[j].target_lang \in {"ja", "en"}
          /\ IsPptxName(active_jobs[j].filename)
    /\ \A k \in 1..Len(translation_queue) :
          /\ translation_queue[k].target_lang \in {"ja", "en"}
          /\ translation_queue[k].file_size <= MAX_FILE_SIZE
          /\ translation_queue[k].file_path.valid

\* C17: an upload that is refused (file over the size limit, a name that is no
\* .pptx name, a language other than "ja" and "en", a deck whose analysis fails)
\* leaves the registry and the queue as they were and writes no per-job metrics
\* record; every language value other than "ja" and "en" is refused.
C17_RejectedUpload == []C17_OnlyValidJobs /\ [][C17_Step]_vars

\* An upload was refused while an earlier one sits in the registry and the queue.
C17_Witness ==
    /\ http_response \in {400, 413}
    /\ jobs_created = 1
    /\ Len(translation_queue) = 1
    /\ metrics_log = <<>>

\* C16 as stated: a job whose deck has no non-blank text slot, and whose
\* pipeline call returned, ends completed with a "completed" record of 0 units.
C16_EmptyDeckCompletes ==
    \A j \in JobIds :
        (/\ active_jobs[j].text_count = 0
         /\ pipeline_outcome[j] # <<>>
         /\ pipeline_outcome[j][1].call = "returned") =>
            /\ active_jobs[j].status = "completed"
            /\ \E k \in RecordsOf(j) :
                  /\ metrics_log[k].status = "completed"
                  /\ metrics_log[k].text_count = 0

\* C18: a job that has left processing has exactly one per-job metrics record,
\* whose status is the job's final status; a job that is queued or processing
\* has none; and there is no record beyond these.
C18_OneRecordPerJob ==
    /\ \A j \in JobIds :
          /\ active_jobs[j].status \in {"queued", "processing"} => RecordsOf(j) = {}
          /\ active_jobs[j].status \in {"completed", "failed"} =>
                /\ Cardinality(RecordsOf(j)) = 1
                /\ \A k \in RecordsOf(j) : metrics_log[k].status = active_jobs[j].status
    /\ Len(metrics_log) = Cardinality(InStatus("completed") \cup InStatus("failed"))

\* Two jobs have ended, each with its record, in the order in which they ended.
C18_Witness ==
    /\ Len(metrics_log) = 2
    /\ metrics_log[1].job # metrics_log[2].job
    /\ \A j \in JobIds : active_jobs[j].status = "failed"

\* The place of job j in the order of admission (0: not admitted).
AdmissionRank(j) ==
    IF \E i \in 1..Len(admitted) : admitted[i] = j
    THEN CHOOSE i \in 1..Len(admitted) : admitted[i] = j
    ELSE 0

\* C19: submit appends to the tail and jobs enter processing in the order of
\* submission (job ids are handed out in that order): when B was admitted and
\* the earlier A was not admitted before it, A was re-queued for saturation;
\* while nothing has been re-queued the queue holds the queued jobs, oldest first.
C19_FifoAdmission ==
    /\ \A a, b \in JobIds :
          (a < b /\ AdmissionRank(b) > 0
                 /\ (AdmissionRank(a) = 0 \/ AdmissionRank(a) > AdmissionRank(b)))
              => a \in requeued
    /\ requeued = {} =>
          /\ \A i \in 1..(Len(translation_queue) - 1) :
                translation_queue[i].job_id < translation_queue[i + 1].job_id
          /\ {translation_queue[i].job_id : i \in 1..Len(translation_queue)}
                = InStatus("queued")

\* Two jobs waited in the queue together and both were admitted, in the order
\* of their submission, without a re-queue.
C19_Witness ==
    /\ admitted = <<1, 2>>
    /\ requeued = {}
    /\ active_jobs[2].created_at < active_jobs[1].completed_at[1]

\* C20: translate_pptx_async is started at most once for a job id: a job is in
\* the queue once, or with the worker, or has had its one call; a job that has
\* ended is neither queued nor run again, and the worker runs one job at a time.
C20_AtMostOneRun ==
    \A j \in JobIds :
        LET waiting == Cardinality({i \in 1..Len(translation_queue) :
                                        translation_queue[i].job_id = j})
            running == IF worker_request # None /\ worker_request[1].job_id = j
                       THEN 1 ELSE 0
            ended == Len(pipeline_outcome[j])
            starts == Cardinality({i \in 1..Len(admitted) : admitted[i] = j})
        IN /\ waiting + running + ended = 1
           /\ starts = running + ended
           /\ active_jobs[j].status \in {"completed", "failed"} =>
                 waiting = 0 /\ running = 0 /\ ended = 1
           /\ running = 1 => worker_pc = "running" /\ active_jobs[j].status = "processing"

\* A job has failed and stays out of the queue while the worker runs the next.
C20_Witness ==
    /\ Len(admitted) = 2
    /\ active_jobs[admitted[1]].status = "failed"
    /\ worker_pc = "running"
    /\ worker_request[1].job_id = admitted[2]

\* =========================================================================
\* Claims about the pricing calculator (C22 - C24)
\* =========================================================================
\* A reported cost (units of 0.000001 USD) is a multiple of 0.000001 USD nearest
\* to the amount (units of 0.00000001 USD).
Nearest(cost, units) == cost * 100 - units \in (-50)..50

Gpt4oMini == <<"g", "p", "t", "-", "4", "o", "-", "m", "i", "n", "i">>

UnknownModel == <<"u", "n", "k", "n", "o", "w", "n", "-", "m", "o", "d", "e", "l">>

\* The name of the call, lower-cased and trimmed.
CalledName == Strip(LowerName(cost_args.model_name))

\* P occurs in Q and is not Q.
ProperSubstring(P, Q) == P # Q /\ Contains(Q, P)

\* C22: calculate_cost returns input_cost = input_tokens / 1000 * input price,
\* output_cost = output_tokens / 1000 * output price and total_cost = their
\* unrounded sum, each rounded to 6 decimal places; a second call with the same
\* arguments returns the same; gpt-4o-mini with 1000 and 500 tokens costs
\* 0.000150 + 0.000300 = 0.000450 USD.
C22_CostFormula ==
    cost_result # None =>
        LET price == PRICING[normalized_model[1]]
            input_units == cost_args.input_tokens * price.input
            output_units == cost_args.output_tokens * price.output
            cost == cost_result[1]
        IN /\ Nearest(cost.input_cost, input_units)
           /\ Nearest(cost.output_cost, output_units)
           /\ Nearest(cost.total_cost, input_units + output_units)
           /\ cost_repeat # None => cost_repeat = cost_result
           /\ cost_args = [model_name |-> Gpt4oMini, input_tokens |-> 1000,
                           output_tokens |-> 500]
                 => cost = [input_cost |-> 150, output_cost |-> 300, total_cost |-> 450]

\* gpt-4o-mini was priced twice for 1000 and 500 tokens, at 0.000450 USD.
C22_Witness ==
    /\ cost_pc = "repeated"
    /\ cost_args.model_name = Gpt4oMini
    /\ cost_args.input_tokens = 1000
    /\ cost_result[1].total_cost = 450
    /\ cost_repeat[1].total_cost = 450

\* C23: _normalize_model_name returns the lower-cased, trimmed name when it is a
\* key of the table, else the first pattern of the chain that occurs in it, else
\* "default"; the result is always a key of the table, so calculate_cost returns
\* a cost for every name, and "unknown-model" is priced at the default tier.
C23_NormalizedIsKey ==
    normalized_model # None =>
        LET tier == normalized_model[1]
            hits == {k \in 1..Len(Patterns) : Contains(CalledName, Patterns[k])}
        IN /\ tier \in DOMAIN PRICING
           /\ CalledName \in DOMAIN PRICING => tier = CalledName
           /\ CalledName \notin DOMAIN PRICING =>
                 /\ hits = {} => tier = DefaultTier
                 /\ hits # {} => \E k \in hits : /\ tier = Patterns[k]
                                                 /\ \A m \in hits : k <= m
           /\ cost_result # None
           /\ cost_args.model_name = UnknownModel =>
                 /\ tier = DefaultTier
                 /\ Nearest(cost_result[1].total_cost,
                            cost_args.input_tokens * PRICING[DefaultTier].input
                               + cost_args.output_tokens * PRICING[DefaultTier].output)

\* "unknown-model" was priced for 1000 and 500 tokens at the default tier:
\* 0.000400 + 0.000800 USD.
C23_Witness ==
    /\ cost_pc = "returned"
    /\ cost_args.model_name = UnknownModel
    /\ cost_args.input_tokens = 1000
    /\ normalized_model = Some(DefaultTier)
    /\ cost_result[1] = [input_cost |-> 400, output_cost |-> 800, total_cost |-> 1200]

\* C24: whenever a pattern of the chain is a proper substring of another, the
\* longer one is tested first; so a name that contains the longer pattern is
\* never priced as the shorter one.
C24_SpecificFirst ==
    /\ \A i \in 1..Len(Patterns) : \A j \in 1..Len(Patterns) :
          ProperSubstring(Patterns[i], Patterns[j]) => j < i
    /\ normalized_model # None =>
          \A i \in 1..Len(Patterns) : \A j \in 1..Len(Patterns) :
             (ProperSubstring(Patterns[i], Patterns[j]) /\ Contains(CalledName, Patterns[j]))
                => normalized_model[1] # Patterns[i]

\* A versioned gpt-4o-mini name, which also contains "gpt-4o" and "gpt-4", was
\* priced as gpt-4o-mini.
C24_Witness ==
    /\ cost_pc = "returned"
    /\ cost_args.model_name = Gpt4oMini \o <<"-", "2", "0", "2", "5">>
    /\ normalized_model = Some(Gpt4oMini)

\* =========================================================================
\* Claims about the token callback (C21, C28)
\* =========================================================================
RECURSIVE SumOver(_, _)
\* The sum of f over the set S.
SumOver(f, S) ==
    IF S = {} THEN 0
    ELSE LET x == CHOOSE y \in S : TRUE IN f[x] + SumOver(f, S \ {x})

\* The token counts of the prompts of the calls that have started, and of the
\* responses of the calls that have ended.
PromptTokensSent ==
    SumOver([r \in DOMAIN llm_runs |-> SumTokens(llm_runs[r].prompts)],
            {r \in DOMAIN llm_runs : llm_runs[r].pc # "pending"})

ResponseTokensReceived ==
    SumOver([r \in DOMAIN llm_runs |-> TokenCount(Flatten(llm_runs[r].chunks))],
            {r \in DOMAIN llm_runs : llm_runs[r].pc = "ended"})

AllEnded == \A r \in DOMAIN llm_runs : llm_runs[r].pc = "ended"

\* C21 as stated: once the calls that share the callback have ended, whatever
\* the interleaving of their start, new-token and end events, input_tokens is
\* the sum of the token counts of all prompts and output_tokens the sum of the
\* token counts of all responses, each response counted once.
C21_CountsAreSums ==
    (tok_pc # "idle" /\ ~was_reset /\ AllEnded) =>
        /\ input_tokens = PromptTokensSent
        /\ output_tokens = ResponseTokensReceived

\* C28: get_metrics reports total_tokens = input_tokens + output_tokens, the
\* counters themselves, and the cost fields of calculate_cost(model,
\* input_tokens, output_tokens); reset_counters leaves both counters at 0 and
\* the pending output buffer empty.
C28_State ==
    /\ tok_pc = "get_metrics" =>
          LET reported == last_metrics[1]
              cost == calculate_cost(cb_model, input_tokens, output_tokens)
          IN /\ reported.model = cb_model
             /\ reported.input_tokens = input_tokens
             /\ reported.output_tokens = output_tokens
             /\ reported.total_tokens = input_tokens + output_tokens
             /\ reported.input_cost_usd = cost.input_cost
             /\ reported.output_cost_usd = cost.output_cost
             /\ reported.total_cost_usd = cost.total_cost
    /\ tok_pc = "reset_counters" =>
          input_tokens = 0 /\ output_tokens = 0 /\ current_run_outputs = <<>>

\* C28: a step other than reset_counters decreases neither counter.
C28_Step ==
    tok_pc' # "reset_counters" =>
        input_tokens' >= input_tokens /\ output_tokens' >= output_tokens

\* C28: the metrics agree with the counters in every state, the counters never
\* decrease between resets, and a reset zeroes them and empties the buffer.
C28_Metrics == []C28_State /\ [][C28_Step]_vars

\* get_metrics was called with both counters positive, after a reset that had
\* emptied a non-empty buffer.
C28_Witness ==
    /\ tok_pc = "get_metrics"
    /\ was_reset
    /\ input_tokens > 0
    /\ output_tokens > 0
    /\ last_metrics[1].total_tokens = input_tokens + output_tokens
    /\ last_metrics[1].total_cost_usd > 0

\* =========================================================================
\* Claims about the queries and the saturation branch (C25, C27, C29, C30)
\* =========================================================================
\* The job ids of the requests waiting in the queue, in queue order.
QueueIds == [i \in 1..Len(translation_queue) |-> translation_queue[i].job_id]

\* The answer of the handler that has just run, if it was the given one.
Answered(handler) == query_response # None /\ query_response[1].handler = handler

\* C25: a status lookup answers 404 exactly when the id is not in the registry;
\* the queue snapshot lists exactly the jobs with status queued, by creation
\* time, and its queue_size is the number of requests waiting in the queue; a
\* job is queued if and only if its request is in the queue, once.
C25_QueuedIffWaiting ==
    /\ \A j \in JobIds :
          Cardinality({i \in 1..Len(translation_queue) : QueueIds[i] = j})
             = IF active_jobs[j].status = "queued" THEN 1 ELSE 0
    /\ \A i \in 1..Len(translation_queue) : QueueIds[i] \in JobIds
    /\ Answered("get_job_status") =>
          LET answer == query_response[1]
          IN /\ answer.code = 404 <=> answer.asked \notin JobIds
             /\ answer.code = 200 => /\ answer.status = active_jobs[answer.asked].status
                                     /\ answer.total_in_queue = Len(translation_queue)
    /\ Answered("get_queue_status") =>
          LET answer == query_response[1]
              listed == answer.queued_jobs
          IN /\ {listed[k].job_id : k \in 1..Len(listed)} = InStatus("queued")
             /\ Len(listed) = Cardinality(InStatus("queued"))
             /\ \A k \in 1..(Len(listed) - 1) :
                   listed[k].created_at <= listed[k + 1].created_at
             /\ \A k \in 1..Len(listed) :
                   listed[k].created_at = active_jobs[listed[k].job_id].created_at
             /\ answer.queue_size = Len(translation_queue)

\* The queue was asked for while two jobs waited, the later one ahead of the
\* earlier one after a re-queue, and listed them by creation time.
C25_Witness ==
    /\ Answered("get_queue_status")
    /\ QueueIds = <<2, 1>>
    /\ query_response[1].queue_size = 2
    /\ query_response[1].queued_jobs[1].job_id = 1
    /\ query_response[1].queued_jobs[2].job_id = 2

\* C27: a step through the saturation branch puts the request it took back at
\* the tail and changes nothing else: the job stays queued, the registry and the
\* counter are as before, the queue holds the same requests, and nothing is logged.
C27_Step ==
    (worker_pc = "get" /\ worker_pc' = "requeue_sleep") =>
        /\ translation_queue # <<>>
        /\ translation_queue' = Append(Tail(translation_queue), Head(translation_queue))
        /\ Len(translation_queue') = Len(translation_queue)
        /\ \A r \in {translation_queue[i] : i \in 1..Len(translation_queue)} :
              Cardinality({i \in 1..Len(translation_queue') : translation_queue'[i] = r})
                 = Cardinality({i \in 1..Len(translation_queue) : translation_queue[i] = r})
        /\ active_jobs' = active_jobs
        /\ active_jobs'[Head(translation_queue).job_id].status = "queued"
        /\ processing_count' = processing_count
        /\ UNCHANGED <<MAX_CONCURRENT_TRANSLATIONS, worker_request, metrics_log,
                       queue_status_log, jobs_created>>

C27_RequeueFrame == [][C27_Step]_vars

\* The loop has just put the request of job 1 back behind that of job 2.
C27_Witness ==
    /\ worker_pc = "requeue_sleep"
    /\ 1 \in requeued
    /\ Len(translation_queue) = 2
    /\ translation_queue[1].job_id = 2
    /\ translation_queue[2].job_id = 1
    /\ active_jobs[1].status = "queued"
    /\ processing_count = 0

\* C29: with a bound of 1 or more, the counter is 0 whenever the loop is about
\* to take a job, no request is ever put back for saturation, and at most one
\* job is processing, whatever the bound.
C29_NeverSaturated ==
    MAX_CONCURRENT_TRANSLATIONS >= 1 =>
        /\ worker_pc \in {"get", "error_sleep"} => processing_count = 0
        /\ worker_pc # "requeue_sleep"
        /\ requeued = {}
        /\ processing_count <= 1
        /\ Cardinality(InStatus("processing")) <= 1

\* With a bound of 2 the loop is back at the head of its body after one job,
\* with a second one waiting and the counter 0.
C29_Witness ==
    /\ MAX_CONCURRENT_TRANSLATIONS = 2
    /\ worker_pc = "get"
    /\ processing_count = 0
    /\ Len(admitted) = 1
    /\ Len(translation_queue) = 1

\* C30: in every state a status or queue query can observe, processing_count is
\* the number of jobs of the registry with status processing, which is the
\* number the queue snapshot reports.
C30_CounterMatchesStatus ==
    /\ processing_count = Cardinality(InStatus("processing"))
    /\ Answered("get_queue_status") =>
          query_response[1].processing_count = processing_count

\* The queue was asked for while one job was being processed.
C30_Witness ==
    /\ Answered("get_queue_status")
    /\ processing_count = 1
    /\ query_response[1].processing_count = 1
    /\ worker_pc = "running"

\* =========================================================================
\* Claims about the traversal of the shape tree (C26)
\* =========================================================================
\* The text a reference leads to from a shape: through the children of groups
\* to a cell (row, cell) of a table or a run (paragraph, run) of a text frame;
\* None if the path leads nowhere.
RECURSIVE TextAtPath(_, _)
TextAtPath(shape, path) ==
    CASE shape.kind = "group" ->
            IF path # <<>> /\ path[1] \in 1..Len(shape.shapes)
            THEN TextAtPath(shape.shapes[path[1]], Tail(path)) ELSE None
      [] shape.kind = "table" ->
            IF Len(path) = 2 /\ path[1] \in 1..Len(shape.rows)
                  /\ path[2] \in 1..Len(shape.rows[path[1]])
            THEN Some(shape.rows[path[1]][path[2]]) ELSE None
      [] shape.kind = "text" ->
            IF Len(path) = 2 /\ path[1] \in 1..Len(shape.paragraphs)
                  /\ path[2] \in 1..Len(shape.paragraphs[path[1]])
            THEN Some(shape.paragraphs[path[1]][path[2]]) ELSE None
      [] OTHER -> None

\* Document order of two references: the first index in which they differ.
RECURSIVE Before(_, _)
Before(a, b) ==
    IF a = <<>> THEN b # <<>>
    ELSE IF b = <<>> THEN FALSE
    ELSE a[1] < b[1] \/ (a[1] = b[1] /\ Before(Tail(a), Tail(b)))

C31_EveryJobEnds ==
    \A j \in 1..MaxJobs :
        (MAX_CONCURRENT_TRANSLATIONS >= 1 /\ StatusOf(j) \in {"queued", "processing"})
            ~> (StatusOf(j) \in {"completed", "failed"})

\* Every job submitted has ended, the last one after it had waited in the queue
\* while the first was processed, and the loop is idle again.
C31_Witness ==
    /\ MAX_CONCURRENT_TRANSLATIONS >= 1
    /\ jobs_created = MaxJobs
    /\ \A j \in JobIds : active_jobs[j].status \in {"completed", "failed"}
    /\ active_jobs[MaxJobs].created_at < active_jobs[1].completed_at[1]
    /\ translation_queue = <<>>
    /\ worker_pc = "get"
    /\ processing_count = 0

\* =========================================================================
\* Lengths of the batch results (C32)
\* =========================================================================
\* The results of the tasks that have returned, in task order, as lines 122-123
\* put them together.
AllTranslations ==
    Flatten([b \in 1..Len(tasks) |-> IF results[b] = None THEN <<>> ELSE results[b][1]])

\* C32: every task returns one text per item of its batch, whether the response
\* was used, was malformed, or the try block raised; so the results put together
\* are as many as the non-blank inputs, every index of the reassembly loop lies
\* within them, and the branch for a missing result is never taken.
C32_OneResultPerItem ==
    /\ tr_pc \in {"gather", "done"} =>
          \A b \in 1..Len(tasks) :
              results[b] # None =>
                  /\ Len(results[b][1]) = Len(tasks[b])
                  /\ \A k \in 1..Len(tasks[b]) : IsText(results[b][1][k])
    /\ (tr_pc = "done" /\ tasks # <<>>) =>
          /\ Len(AllTranslations) = Len(non_empty_texts)
          /\ Len(AllTranslations) = Cardinality({p \in Positions : NonBlank(p)})
          /\ \A i \in 1..Len(text_indices) :
                /\ i <= Len(AllTranslations)
                /\ final_results[text_indices[i] + 1] = AllTranslations[i]

\* A call of two batches has returned: the response of one was used, that of
\* the other was no mapping, and the last input got the last result.
C32_Witness ==
    /\ tr_pc = "done"
    /\ Len(tasks) = 2
    /\ \E b, c \in 1..2 :
          /\ responses[b][1].kind = "not_dict"
          /\ responses[c][1].kind = "list"
          /\ ~ChunkRaises(tasks[c], responses[c][1])
    /\ Len(AllTranslations) = Len(text_indices)
    /\ final_results[Len(texts)] = AllTranslations[Len(AllTranslations)]

====
